---- MODULE Spec2Model ----
(***************************************************************************)
(* mLRS transmitter: the link core of mLRS/CommonTx/mlrs-tx.cpp.           *)
(*                                                                         *)
(* The state is the file-scope state of mlrs-tx.cpp (the two IRQ status    *)
(* words, the Link FSM, the Connection FSM, the receive statuses, the      *)
(* command slot, the WhileTransmit engine, the frame buffers), the two     *)
(* transceivers as the driver of Common/sx1280_driver.h sees them, and     *)
(* the position of the super-loop of main_main.  One action stands for     *)
(* each section of the loop and for each interrupt                         *)
(* handler.  The specification runs the two single-antenna builds; the     *)
(* actions carry the diversity build's branches as the source has them.    *)
(***************************************************************************)
EXTENDS Integers, FiniteSets, Sequences, TLC

\* ------------------------------------------------------------- bounds --
\* Configuration values and reduced widths; the source takes them from
\* headers that set far larger numbers.
FrameRateMs == 2            \* Config.frame_rate_ms, system ticks per frame
CONNECT_TMO_SYSTICKS == 3   \* system ticks without a valid frame
CONNECT_SYNC_CNT == 2       \* sync threshold
FhssNum == 3                \* Config.FhssNum, channels in the hop set
SeqNoMod == 3               \* stats.transmit_seq_no counts modulo this
LqPeriod == 3               \* Config.LQAveragingPeriod, frames in the LQ ring
StuckMax == 3               \* longest time without a transmit-complete callback told apart
MillisMod == 4              \* the millisecond clock counts modulo this
MSP_FRAME_LEN_MAX == 2      \* longest MSP frame
MspSpare == 1               \* the 16 chars HasSpace asks for above a full frame
MspFifoSize == 5            \* chars fifo_link_out holds
MaxSerialMsgs == 2          \* complete messages waiting on serial at a Do call
MillisMod32 == 5            \* millis32() counts modulo this
MspTickMs == 2              \* the 100 ms of a tick
MspSilenceMs == 3           \* the 1500 ms without a request from the link

\* ---------------------------------------------------------- constants --
RX_STATUS_NONE == 0
RX_STATUS_INVALID == 1
RX_STATUS_VALID == 2
ANTENNA_1 == 1
ANTENNA_2 == 2
WHILE_TRANSMIT_DELAY == 5   \* WhileTransmit::Trigger, do_cnt = 5
MspTickRound == 20          \* INCc(tick, 20)
RSSI_INVALID == 127         \* what stats.Clear() leaves in last_rx_rssi1/2

SX12xx_IRQ_TX_DONE == "TX_DONE"
SX12xx_IRQ_RX_DONE == "RX_DONE"
SX12xx_IRQ_TIMEOUT == "TIMEOUT"

Config_FrameSyncWord == "FrameSyncWord"
SyncWords == {Config_FrameSyncWord, "foreign"}
RssiSet == {-70, -65}

\* A frame as rxFrame/rxFrame2 hold it.  NoFrame is the zeroed buffer.
\* kind is "data" for a FRAME_TYPE_RX frame and payload[0] for a command frame.
NoFrame == [sync_word |-> "none", crc_ok |-> FALSE, kind |-> "none", payload |-> "none"]
TxFrame == [sync_word |-> Config_FrameSyncWord, crc_ok |-> TRUE, kind |-> "tx", payload |-> "tx"]
AirFrames(kinds, payloads) ==
    {[sync_word |-> s, crc_ok |-> c, kind |-> k, payload |-> p] :
        s \in SyncWords, c \in BOOLEAN, k \in kinds, p \in payloads}

VARIABLES
    antennas,               \* the antennas the build enables (USE_ANTENNA1/2)
    pc,                     \* section of the super-loop the main context is at
    doSysTask,              \* set by the 1 ms system tick
    tx_tick, doPreTransmit,
    link_state, connect_state, connect_tmo_cnt, connect_sync_cnt,
    link_rx1_status, link_rx2_status,
    irq_status, irq2_status,
    transmit_frame_type, setup_rx_param_changed,
    whileTransmit,          \* [do_cnt, tasks]
    stats,                  \* [transmit_seq_no, last_rx_rssi1, last_rx_rssi2, last_rx_antenna]
    fhss_curr_i,
    rxFrame, rxFrame2,
    sx, sx2,                \* transceivers: [mode, buf, rev]
    spi,                    \* per bus, the last SPI transaction: [ctx, cmd]
    txFrame,                \* the frame the last Transmit step packed: [frame_type, serial]
    serial_out,             \* the payload the last pre-transmit step wrote to serial
    cyc,                    \* history of the running cycle
    conn_hist,              \* history of the Connection FSM's inputs
    txstats,                \* the LQ ring: per frame, the counters that were incremented
    channelOrder,           \* the ChannelOrder object: [channel_order, channel_map]
    rcData,                 \* the RC channels: [ch]
    rc_hist,                \* history of the channel updates
    pin5,                   \* the handset UART bridge (tPin5BridgeBase) and its clock
    msp                     \* the receiver's MSP interface (tRxMsp) and its clock

vars == <<antennas, pc, doSysTask, tx_tick, doPreTransmit, link_state, connect_state,
          connect_tmo_cnt, connect_sync_cnt, link_rx1_status, link_rx2_status,
          irq_status, irq2_status, transmit_frame_type, setup_rx_param_changed,
          whileTransmit, stats, fhss_curr_i, rxFrame, rxFrame2, sx, sx2, spi, txFrame,
          serial_out, cyc, conn_hist, txstats, channelOrder, rcData, rc_hist,
          pin5, msp>>

USE_ANTENNA1 == ANTENNA_1 \in antennas
USE_ANTENNA2 == ANTENNA_2 \in antennas

connected == connect_state = "CONNECTED"

\* DECc(x, period): a down-counter that reloads when it is found at zero.
DECc(x, period) == IF x = 0 THEN period - 1 ELSE x - 1

Min(a, b) == IF a < b THEN a ELSE b

\* ------------------------------------------------------- transceivers --
\* What the hardware can signal on DIO1, by the mode the last command left
\* the transceiver in: a transmission ends by TX_DONE or by its timeout, an
\* armed receiver signals a frame (now in its buffer) or a timeout.  Of a
\* received frame the buffer state keeps the sync word, which the ISR reads;
\* the rest of its bytes are drawn when ReadFrame copies them.
HwEvents(m) ==
    IF m.mode = "tx"
    THEN {[st |-> {c}, sx |-> [m EXCEPT !.mode = "fs"]] :
              c \in {SX12xx_IRQ_TX_DONE, SX12xx_IRQ_TIMEOUT}}
    ELSE IF m.mode = "rx"
    THEN {[st |-> {SX12xx_IRQ_RX_DONE},
           sx |-> [m EXCEPT !.buf = [src |-> "air", sync_word |-> s]]] : s \in SyncWords}
         \cup {[st |-> {SX12xx_IRQ_TIMEOUT}, sx |-> [m EXCEPT !.mode = "fs"]]}
    ELSE {}

\* The firmware revisions GetFirmwareRev can return: a dead bus reads 0 or
\* 0xFFFF, a transceiver its revision.
FirmwareRevOk == 43447
FirmwareRevs == {0, 65535, FirmwareRevOk}

\* A transceiver after SxDriver::Init: reset, in standby, DIO1 interrupt off.
PowerOn(rev) == [mode |-> "stdby", buf |-> [src |-> "none", sync_word |-> "none"], rev |-> rev]

\* SxDriver::isOk taking 0xFFFF for a revision.
isOk_nonzero(m) == m.rev # 0

\* SxDriver::isOk
isOk(m) == m.rev # 0 /\ m.rev # 65535

\* SxDriver::StartUp: SetStandby, Configure (which ends with SetFs), DIO1
\* interrupt on.
StartUp(m) == [m EXCEPT !.mode = "fs"]

\* SxDriver::SendFrame: WriteBuffer(0, data), ClearIrqStatus, SetTx.
SendFrame(m) ==
    [m EXCEPT !.mode = "tx", !.buf = [src |-> "tx", sync_word |-> Config_FrameSyncWord]]

\* SxDriver::SetToRx: ClearIrqStatus, SetRx.
SetToRx(m) == [m EXCEPT !.mode = "rx"]

\* SxDriver::ReadFrame: GetRxBufferStatus, ReadBuffer(rxStartBufferPointer, data, len).
ReadFrame(m, frames) ==
    IF m.buf.src = "air" THEN {f \in frames : f.sync_word = m.buf.sync_word}
    ELSE IF m.buf.src = "tx" THEN {TxFrame}
    ELSE {NoFrame}

Main(cmd) == [ctx |-> "main", cmd |-> cmd]
Isr(cmd) == [ctx |-> "isr", cmd |-> cmd]

\* ------------------------------------------------- interrupt handlers --
\* The ISR without the sync word check.
IsrIrqStatus_unchecked(st, sync_word) == st

\* The IRQ status word the modem ISR leaves: the cause read from the
\* transceiver, or 0 when RX_DONE came with a sync word that is not ours.
IsrIrqStatus(st, sync_word) ==
    IF SX12xx_IRQ_RX_DONE \in st /\ sync_word # Config_FrameSyncWord THEN {} ELSE st

\* The ISR reading the whole frame on RX_DONE.
IsrSpi_ReadFrame(st) ==
    IF SX12xx_IRQ_RX_DONE \in st THEN Isr("ReadFrame") ELSE Isr("GetAndClearIrqStatus")

\* The last SPI transaction of one run of the modem ISR.
IsrSpi(st) ==
    IF SX12xx_IRQ_RX_DONE \in st THEN Isr("ReadBuffer") ELSE Isr("GetAndClearIrqStatus")

\* Where the model takes a modem interrupt.  The sections of the loop read
\* the IRQ words and the transceivers in the link switch and in the two IRQ
\* blocks only, so an interrupt taken anywhere else in the loop acts as one
\* taken before the next of these.
IsrPoint == pc \in {"link", "irq"}

\* The frames a receiver can pick up.
Frames == AirFrames({"data"}, {"pa"})

\* The antenna 1 ISR copying the frame to rxFrame itself.
SX_DIO_EXTI_IRQHandler_reads_payload ==
    /\ IsrPoint
    /\ USE_ANTENNA1
    /\ \E ev \in HwEvents(sx) :
          /\ sx' = ev.sx
          /\ irq_status' = IsrIrqStatus(ev.st, ev.sx.buf.sync_word)
          /\ spi' = [spi EXCEPT ![ANTENNA_1] = IsrSpi(ev.st)]
          /\ IF SX12xx_IRQ_RX_DONE \in ev.st
             THEN \E f \in ReadFrame(ev.sx, Frames) : rxFrame' = f
             ELSE rxFrame' = rxFrame
    /\ UNCHANGED <<antennas, pc, doSysTask, tx_tick, doPreTransmit, link_state,
                   connect_state, connect_tmo_cnt, connect_sync_cnt, link_rx1_status,
                   link_rx2_status, irq2_status, transmit_frame_type,
                   setup_rx_param_changed, whileTransmit, stats, fhss_curr_i,
                   rxFrame2, sx2, cyc, conn_hist, txFrame, serial_out, txstats,
                   channelOrder, rcData, rc_hist, pin5, msp>>

SX_DIO_EXTI_IRQHandlerOn(events) ==
    /\ IsrPoint
    /\ USE_ANTENNA1
    /\ \E ev \in events :
          /\ sx' = ev.sx
          /\ irq_status' = IsrIrqStatus(ev.st, ev.sx.buf.sync_word)
          /\ spi' = [spi EXCEPT ![ANTENNA_1] = IsrSpi(ev.st)]
    /\ UNCHANGED <<antennas, pc, doSysTask, tx_tick, doPreTransmit, link_state,
                   connect_state, connect_tmo_cnt, connect_sync_cnt, link_rx1_status,
                   link_rx2_status, irq2_status, transmit_frame_type,
                   setup_rx_param_changed, whileTransmit, stats, fhss_curr_i, rxFrame,
                   rxFrame2, sx2, cyc, conn_hist, txFrame, serial_out, txstats,
                   channelOrder, rcData, rc_hist, pin5, msp>>

\* The antenna 1 ISR on whatever the transceiver can signal.
SX_DIO_EXTI_IRQHandler == SX_DIO_EXTI_IRQHandlerOn(HwEvents(sx))

SX2_DIO_EXTI_IRQHandlerOn(events) ==
    /\ IsrPoint
    /\ USE_ANTENNA2
    /\ \E ev \in events :
          /\ sx2' = ev.sx
          /\ irq2_status' = IsrIrqStatus(ev.st, ev.sx.buf.sync_word)
          /\ spi' = [spi EXCEPT ![ANTENNA_2] = IsrSpi(ev.st)]
    /\ UNCHANGED <<antennas, pc, doSysTask, tx_tick, doPreTransmit, link_state,
                   connect_state, connect_tmo_cnt, connect_sync_cnt, link_rx1_status,
                   link_rx2_status, irq_status, transmit_frame_type,
                   setup_rx_param_changed, whileTransmit, stats, fhss_curr_i, rxFrame,
                   rxFrame2, sx, cyc, conn_hist, txFrame, serial_out, txstats,
                   channelOrder, rcData, rc_hist, pin5, msp>>

\* The antenna 2 ISR on whatever the transceiver can signal.
SX2_DIO_EXTI_IRQHandler == SX2_DIO_EXTI_IRQHandlerOn(HwEvents(sx2))

\* The 1 ms system tick.
SysTick_Handler ==
    /\ pc = "sys"
    /\ ~doSysTask
    /\ doSysTask' = TRUE
    /\ UNCHANGED <<antennas, pc, tx_tick, doPreTransmit, link_state, connect_state,
                   connect_tmo_cnt, connect_sync_cnt, link_rx1_status, link_rx2_status,
                   irq_status, irq2_status, transmit_frame_type, setup_rx_param_changed,
                   whileTransmit, stats, fhss_curr_i, rxFrame, rxFrame2, sx, sx2, spi,
                   cyc, conn_hist, txFrame, serial_out, txstats,
                   channelOrder, rcData, rc_hist, pin5, msp>>

\* ------------------------------------------------------------- boot ----
\* The builds the specification runs: antenna 1 only and antenna 2 only.
Builds == {{ANTENNA_1}, {ANTENNA_2}}

\* tRxMsp::Init at time 0.  millis is the clock millis32() reads; overflow
\* records that a PutBuf of the last Do lacked space, sent the request the
\* step just taken put on serial, silent_ms and inject_gap_ms the true times
\* since the last request from the link and since the last injected request.
MspInit ==
    [fifo |-> 0, msp_request_tlast_ms |-> 0, tick_tlast_ms |-> 0, tick |-> 0,
     millis |-> 0,
     overflow |-> FALSE, sent |-> "none", silent_ms |-> 0, inject_gap_ms |-> MspTickMs]

\* tPin5BridgeBase::Init, at time 0.  millis is the millisecond clock and
\* stuck_ms the time the bridge has been in STATE_TRANSMITING without a
\* transmit-complete callback; rescue_checked says that CheckAndRescue ran
\* since the clock last moved; parsed and started record the state
\* parse_nextchar left and what transmit_start() answered in the last
\* uart_rx_callback.
Pin5Init ==
    [state |-> "STATE_IDLE", telemetry_start_next_tick |-> FALSE,
     nottransmiting_tlast_ms |-> 0, millis |-> 0, stuck_ms |-> 0, rescue_checked |-> FALSE,
     parsed |-> "STATE_IDLE", started |-> "not called"]

\* The ChannelOrder object as its constructor leaves it.
ChannelOrderNew == [channel_order |-> "UINT8_MAX", channel_map |-> [n \in 0..3 |-> n]]

\* rcData before the first channel update, and the history with it.
NoRcData == [ch |-> [n \in 0..4 |-> 0]]
NoRcHist == [orders |-> <<>>, ch_in |-> NoRcData.ch]

\* txstats.Init(Config.LQAveragingPeriod): a ring of LqPeriod frames, nothing
\* counted in any of them.
TxStatsInit == [i \in 1..LqPeriod |-> {}]

NoHist == [valid_run |-> 0, from_listen |-> FALSE, novalid_run |-> 0, from_connected |-> FALSE]
NoCycle == [hops |-> 0, seq_incs |-> 0, sent |-> 0, tx_done_seen |-> FALSE, armed |-> 0,
            loops |-> 0, task_runs |-> 0, stored |-> FALSE]

Init ==
    /\ antennas \in Builds
    /\ pc = "sys"
    /\ doSysTask = FALSE
    /\ tx_tick = 0
    /\ doPreTransmit = FALSE
    /\ link_state = "IDLE"
    /\ connect_state = "LISTEN"
    /\ connect_tmo_cnt = 0
    /\ connect_sync_cnt = 0
    /\ link_rx1_status = RX_STATUS_NONE
    /\ link_rx2_status = RX_STATUS_NONE
    /\ irq_status = {}
    /\ irq2_status = {}
    /\ transmit_frame_type = "CMD_GET_RX_SETUPDATA"
    /\ setup_rx_param_changed = FALSE
    /\ whileTransmit = [do_cnt |-> 0, tasks |-> {}]
    /\ stats = [transmit_seq_no |-> 0, last_rx_rssi1 |-> RSSI_INVALID,
                last_rx_rssi2 |-> RSSI_INVALID, last_rx_antenna |-> ANTENNA_1]
    /\ fhss_curr_i = 0
    /\ rxFrame = NoFrame
    /\ rxFrame2 = NoFrame
    /\ sx = StartUp(PowerOn(FirmwareRevOk))
    /\ sx2 = StartUp(PowerOn(FirmwareRevOk))
    /\ spi = [a \in {ANTENNA_1, ANTENNA_2} |-> Main("SetRfFrequency")]
    /\ txFrame = [frame_type |-> "none", serial |-> FALSE]
    /\ serial_out = "none"
    /\ cyc = NoCycle
    /\ conn_hist = NoHist
    /\ txstats = TxStatsInit
    /\ channelOrder = ChannelOrderNew
    /\ rcData = NoRcData
    /\ rc_hist = NoRcHist
    /\ pin5 = Pin5Init
    /\ msp = MspInit

\* ------------------------------------------------- SysTask handling ----
\* The system tick task without the decrement.
connect_tmo_tick_stuck(cnt) == cnt

\* The decrement without the test, in the 16 bits of connect_tmo_cnt.
connect_tmo_tick_unguarded(cnt) == (cnt - 1 + 65536) % 65536

\* if (connect_tmo_cnt) connect_tmo_cnt--;
connect_tmo_tick(cnt) == IF cnt # 0 THEN cnt - 1 ELSE cnt

SysTask ==
    /\ pc = "sys"
    /\ doSysTask
    /\ doSysTask' = FALSE
    /\ connect_tmo_cnt' = connect_tmo_tick(connect_tmo_cnt)
    /\ tx_tick' = DECc(tx_tick, FrameRateMs)
    /\ doPreTransmit' = IF tx_tick' = 0 THEN TRUE ELSE doPreTransmit
    /\ pc' = "link"
    /\ UNCHANGED <<antennas, link_state, connect_state, connect_sync_cnt, link_rx1_status,
                   link_rx2_status, irq_status, irq2_status, transmit_frame_type,
                   setup_rx_param_changed, whileTransmit, stats, fhss_curr_i, rxFrame,
                   rxFrame2, sx, sx2, spi, cyc, conn_hist, txFrame, serial_out, txstats,
                   channelOrder, rcData, rc_hist, pin5, msp>>

NoSysTask ==
    /\ pc = "sys"
    /\ ~doSysTask
    /\ pc' = "link"
    /\ UNCHANGED <<antennas, doSysTask, tx_tick, doPreTransmit, link_state, connect_state,
                   connect_tmo_cnt, connect_sync_cnt, link_rx1_status, link_rx2_status,
                   irq_status, irq2_status, transmit_frame_type, setup_rx_param_changed,
                   whileTransmit, stats, fhss_curr_i, rxFrame, rxFrame2, sx, sx2, spi,
                   cyc, conn_hist, txFrame, serial_out, txstats,
                   channelOrder, rcData, rc_hist, pin5, msp>>

\* ------------------------------------------------------ SX handling ----
\* fhss.HopToNext()
HopToNext(curr_i) == (curr_i + 1) % FhssNum

\* do_transmit counting the frame twice.
do_transmit_seq_no_twice(seq_no) == (seq_no + 2) % SeqNoMod

\* do_transmit: stats.transmit_seq_no++
do_transmit_seq_no(seq_no) == (seq_no + 1) % SeqNoMod

\* process_transmit_frame reading the serial source for every frame.
pack_tx_reads_serial(type, conn) ==
    [frame_type |-> IF type = "NORMAL" THEN "TX" ELSE type, serial |-> conn]

\* process_transmit_frame: the frame packed for a command slot value, and
\* whether the serial (or MAVLink) source was read for it.
pack_tx(type, conn) ==
    IF type = "NORMAL" THEN [frame_type |-> "TX", serial |-> conn]
    ELSE [frame_type |-> type, serial |-> FALSE]

\* process_transmit_frame latching a changed parameter over a request in
\* flight.
process_transmit_frame_type_any(type, changed) ==
    IF changed THEN "CMD_SET_RX_PARAMS" ELSE type

\* process_transmit_frame: a changed parameter takes the free command slot.
process_transmit_frame_type(type, changed) ==
    IF changed /\ type = "NORMAL" THEN "CMD_SET_RX_PARAMS" ELSE type

LinkIdle ==
    /\ pc = "link"
    /\ link_state \notin {"TRANSMIT", "RECEIVE"}
    /\ pc' = "irq"
    /\ UNCHANGED <<antennas, doSysTask, tx_tick, doPreTransmit, link_state, connect_state,
                   connect_tmo_cnt, connect_sync_cnt, link_rx1_status, link_rx2_status,
                   irq_status, irq2_status, transmit_frame_type, setup_rx_param_changed,
                   whileTransmit, stats, fhss_curr_i, rxFrame, rxFrame2, sx, sx2, spi,
                   cyc, conn_hist, txFrame, serial_out, txstats,
                   channelOrder, rcData, rc_hist, pin5, msp>>

LinkTransmit ==
    /\ pc = "link"
    /\ link_state = "TRANSMIT"
    /\ fhss_curr_i' = HopToNext(fhss_curr_i)
    /\ LET antenna == IF USE_ANTENNA1 THEN ANTENNA_1 ELSE ANTENNA_2
           type == process_transmit_frame_type(transmit_frame_type, setup_rx_param_changed)
       IN  /\ transmit_frame_type' = type
           /\ txFrame' = pack_tx(type, connected)
           /\ setup_rx_param_changed' =
                  IF setup_rx_param_changed /\ transmit_frame_type = "NORMAL"
                  THEN FALSE ELSE setup_rx_param_changed
           /\ sx' = IF antenna = ANTENNA_1 THEN SendFrame(sx) ELSE sx
           /\ sx2' = IF antenna = ANTENNA_2 THEN SendFrame(sx2) ELSE sx2
           /\ spi' = [a \in {ANTENNA_1, ANTENNA_2} |->
                         IF a = antenna THEN Main("SendFrame") ELSE Main("SetRfFrequency")]
    /\ stats' = [stats EXCEPT !.transmit_seq_no = do_transmit_seq_no(@)]
    /\ link_state' = "TRANSMIT_WAIT"
    /\ irq_status' = {}
    /\ irq2_status' = {}
    /\ whileTransmit' = [whileTransmit EXCEPT !.do_cnt = WHILE_TRANSMIT_DELAY]
    /\ cyc' = [cyc EXCEPT !.hops = @ + 1, !.seq_incs = @ + 1, !.sent = @ + 1,
                          !.tx_done_seen = FALSE, !.loops = 0, !.task_runs = 0,
                          !.stored = FALSE]
    /\ pc' = "irq"
    /\ UNCHANGED <<antennas, doSysTask, tx_tick, doPreTransmit, connect_state,
                   connect_tmo_cnt, connect_sync_cnt, link_rx1_status, link_rx2_status,
                   rxFrame, rxFrame2, conn_hist, serial_out, txstats,
                   channelOrder, rcData, rc_hist, pin5, msp>>

LinkReceive ==
    /\ pc = "link"
    /\ link_state = "RECEIVE"
    /\ sx' = IF USE_ANTENNA1 THEN SetToRx(sx) ELSE sx
    /\ sx2' = IF USE_ANTENNA2 THEN SetToRx(sx2) ELSE sx2
    /\ spi' = [a \in {ANTENNA_1, ANTENNA_2} |-> IF a \in antennas THEN Main("SetToRx") ELSE spi[a]]
    /\ link_state' = "RECEIVE_WAIT"
    /\ irq_status' = {}
    /\ irq2_status' = {}
    /\ cyc' = [cyc EXCEPT !.armed = @ + 1]
    /\ pc' = "irq"
    /\ UNCHANGED <<antennas, doSysTask, tx_tick, doPreTransmit, connect_state,
                   connect_tmo_cnt, connect_sync_cnt, link_rx1_status, link_rx2_status,
                   transmit_frame_type, setup_rx_param_changed, whileTransmit, stats,
                   fhss_curr_i, rxFrame, rxFrame2, conn_hist, txFrame, serial_out,
                   txstats, channelOrder, rcData, rc_hist, pin5, msp>>

\* The IRQ block taking any cause seen in TRANSMIT_WAIT for the end of the
\* transmission.
IrqOutcome_any_cause(ls, irq) ==
    LET tx_done == ls = "TRANSMIT_WAIT" /\ SX12xx_IRQ_TX_DONE \in irq
        tx_end == ls = "TRANSMIT_WAIT" /\ irq # {}
        rx_done == ls = "RECEIVE_WAIT" /\ SX12xx_IRQ_RX_DONE \in irq
        irqA == IF tx_end \/ rx_done THEN {} ELSE irq
        lsA == IF tx_end THEN "RECEIVE" ELSE ls
        tmo == SX12xx_IRQ_TIMEOUT \in irqA
        irqB == IF tmo THEN {} ELSE irqA
        lsB == IF tmo THEN "IDLE" ELSE lsA
    IN  [link_state |-> lsB, irq |-> irqB, tx_done |-> tx_done, do_receive |-> rx_done,
         timeout |-> tmo,
         halt |-> SX12xx_IRQ_RX_DONE \in irqB \/ SX12xx_IRQ_TX_DONE \in irqB]

\* The IRQ block going back to IDLE once a frame has been received.
IrqOutcome_idle_after_rx(ls, irq) ==
    LET tx_done == ls = "TRANSMIT_WAIT" /\ SX12xx_IRQ_TX_DONE \in irq
        rx_done == ls = "RECEIVE_WAIT" /\ SX12xx_IRQ_RX_DONE \in irq
        irqA == IF tx_done \/ rx_done THEN {} ELSE irq
        lsA == IF tx_done THEN "RECEIVE" ELSE IF rx_done THEN "IDLE" ELSE ls
        tmo == SX12xx_IRQ_TIMEOUT \in irqA
        irqB == IF tmo THEN {} ELSE irqA
        lsB == IF tmo THEN "IDLE" ELSE lsA
    IN  [link_state |-> lsB, irq |-> irqB, tx_done |-> tx_done, do_receive |-> rx_done,
         timeout |-> tmo,
         halt |-> SX12xx_IRQ_RX_DONE \in irqB \/ SX12xx_IRQ_TX_DONE \in irqB]

\* One antenna's "if (irq_status) { ... }" block, as far as it depends on the
\* Link FSM state and the IRQ word only.
IrqOutcome(ls, irq) ==
    LET tx_done == ls = "TRANSMIT_WAIT" /\ SX12xx_IRQ_TX_DONE \in irq
        rx_done == ls = "RECEIVE_WAIT" /\ SX12xx_IRQ_RX_DONE \in irq
        irqA == IF tx_done \/ rx_done THEN {} ELSE irq
        lsA == IF tx_done THEN "RECEIVE" ELSE ls
        tmo == SX12xx_IRQ_TIMEOUT \in irqA
        irqB == IF tmo THEN {} ELSE irqA
        lsB == IF tmo THEN "IDLE" ELSE lsA
    IN  [link_state |-> lsB, irq |-> irqB, tx_done |-> tx_done, do_receive |-> rx_done,
         timeout |-> tmo,
         halt |-> SX12xx_IRQ_RX_DONE \in irqB \/ SX12xx_IRQ_TX_DONE \in irqB]

\* check_rx_frame
check_rx_frame(frame) ==
    IF frame.sync_word # Config_FrameSyncWord THEN "CHECK_ERROR_SYNCWORD"
    ELSE IF ~frame.crc_ok THEN "CHECK_ERROR_CRC"
    ELSE "CHECK_OK"

\* do_receive's result
do_receive_status(res) ==
    IF res = "CHECK_ERROR_SYNCWORD" THEN RX_STATUS_NONE
    ELSE IF res = "CHECK_OK" THEN RX_STATUS_VALID
    ELSE RX_STATUS_INVALID

\* The last SPI transaction of do_receive: GetPacketStatus, which a sync
\* word error returns before.
do_receive_spi(res) ==
    IF res = "CHECK_ERROR_SYNCWORD" THEN Main("ReadFrame") ELSE Main("GetPacketStatus")

\* The timeout branch leaving the receive statuses as they are.
TimeoutRxStatus_kept(rx1, rx2) == <<rx1, rx2>>

\* The receive statuses after a timeout cause was handled.
TimeoutRxStatus(rx1, rx2) == <<RX_STATUS_NONE, RX_STATUS_NONE>>

IrqHandlingOf(frames, rssis) ==
    /\ pc = "irq"
    /\ IF USE_ANTENNA1 /\ irq_status # {}
       THEN LET o == IrqOutcome(link_state, irq_status)
            IN  /\ irq_status' = o.irq
                /\ link_state' = o.link_state
                /\ IF o.do_receive
                   THEN \E f \in ReadFrame(sx, frames), r \in rssis :
                           LET res == check_rx_frame(f)
                           IN  /\ rxFrame' = f
                               /\ link_rx1_status' = do_receive_status(res)
                               /\ spi' = [spi EXCEPT ![ANTENNA_1] = do_receive_spi(res)]
                               /\ stats' = IF res = "CHECK_ERROR_SYNCWORD" THEN stats
                                           ELSE [stats EXCEPT !.last_rx_rssi1 = r]
                   ELSE /\ rxFrame' = rxFrame
                        /\ link_rx1_status' =
                               IF o.timeout
                               THEN TimeoutRxStatus(link_rx1_status, link_rx2_status)[1]
                               ELSE link_rx1_status
                        /\ UNCHANGED <<spi, stats>>
                /\ link_rx2_status' =
                       IF o.timeout THEN TimeoutRxStatus(link_rx1_status, link_rx2_status)[2]
                       ELSE link_rx2_status
                /\ cyc' = IF o.tx_done THEN [cyc EXCEPT !.tx_done_seen = TRUE] ELSE cyc
                /\ pc' = IF o.halt THEN "halt" ELSE "irq2"
       ELSE /\ pc' = "irq2"
            /\ UNCHANGED <<irq_status, link_state, rxFrame, spi, stats, link_rx1_status,
                           link_rx2_status, cyc>>
    /\ UNCHANGED <<antennas, doSysTask, tx_tick, doPreTransmit, connect_state,
                   connect_tmo_cnt, connect_sync_cnt, irq2_status, transmit_frame_type,
                   setup_rx_param_changed, whileTransmit, fhss_curr_i, rxFrame2, sx, sx2,
                   conn_hist, txFrame, serial_out, txstats,
                   channelOrder, rcData, rc_hist, pin5, msp>>

\* The antenna 1 IRQ block, the receiver picking up FRAME_TYPE_RX frames.
IrqHandling == IrqHandlingOf(Frames, RssiSet)

Irq2HandlingOf(frames, rssis) ==
    /\ pc = "irq2"
    /\ IF USE_ANTENNA2 /\ irq2_status # {}
       THEN LET o == IrqOutcome(link_state, irq2_status)
            IN  /\ irq2_status' = o.irq
                /\ link_state' = o.link_state
                /\ IF o.do_receive
                   THEN \E f \in ReadFrame(sx2, frames), r \in rssis :
                           LET res == check_rx_frame(f)
                           IN  /\ rxFrame2' = f
                               /\ link_rx2_status' = do_receive_status(res)
                               /\ spi' = [spi EXCEPT ![ANTENNA_2] = do_receive_spi(res)]
                               /\ stats' = IF res = "CHECK_ERROR_SYNCWORD" THEN stats
                                           ELSE [stats EXCEPT !.last_rx_rssi2 = r]
                   ELSE /\ rxFrame2' = rxFrame2
                        /\ link_rx2_status' =
                               IF o.timeout
                               THEN TimeoutRxStatus(link_rx1_status, link_rx2_status)[2]
                               ELSE link_rx2_status
                        /\ UNCHANGED <<spi, stats>>
                /\ link_rx1_status' =
                       IF o.timeout THEN TimeoutRxStatus(link_rx1_status, link_rx2_status)[1]
                       ELSE link_rx1_status
                /\ cyc' = IF o.tx_done THEN [cyc EXCEPT !.tx_done_seen = TRUE] ELSE cyc
                /\ pc' = IF o.halt THEN "halt" ELSE "pre"
       ELSE /\ pc' = "pre"
            /\ UNCHANGED <<irq2_status, link_state, rxFrame2, spi, stats, link_rx1_status,
                           link_rx2_status, cyc>>
    /\ UNCHANGED <<antennas, doSysTask, tx_tick, doPreTransmit, connect_state,
                   connect_tmo_cnt, connect_sync_cnt, irq_status, transmit_frame_type,
                   setup_rx_param_changed, whileTransmit, fhss_curr_i, rxFrame, sx, sx2,
                   conn_hist, txFrame, serial_out, txstats,
                   channelOrder, rcData, rc_hist, pin5, msp>>

\* The antenna 2 IRQ block, the receiver picking up FRAME_TYPE_RX frames.
Irq2Handling == Irq2HandlingOf(Frames, RssiSet)

\* ------------------------------------------------------ pre-transmit ----
frame_received ==
    IF USE_ANTENNA1 /\ USE_ANTENNA2
    THEN link_rx1_status > RX_STATUS_NONE \/ link_rx2_status > RX_STATUS_NONE
    ELSE IF USE_ANTENNA1 THEN link_rx1_status > RX_STATUS_NONE
    ELSE IF USE_ANTENNA2 THEN link_rx2_status > RX_STATUS_NONE
    ELSE FALSE

valid_frame_received ==
    IF USE_ANTENNA1 /\ USE_ANTENNA2
    THEN link_rx1_status > RX_STATUS_INVALID \/ link_rx2_status > RX_STATUS_INVALID
    ELSE IF USE_ANTENNA1 THEN link_rx1_status > RX_STATUS_INVALID
    ELSE IF USE_ANTENNA2 THEN link_rx2_status > RX_STATUS_INVALID
    ELSE FALSE

\* The choice made on the RSSI alone.
SelectAntenna_by_rssi(use1, use2, rx1, rx2, rssi1, rssi2) ==
    IF use1 /\ use2 THEN (IF rssi1 > rssi2 THEN ANTENNA_1 ELSE ANTENNA_2)
    ELSE IF use2 THEN ANTENNA_2
    ELSE ANTENNA_1

\* The antenna handle_receive is called with.
SelectAntenna(use1, use2, rx1, rx2, rssi1, rssi2) ==
    IF use1 /\ use2
    THEN IF rx1 = rx2 THEN (IF rssi1 > rssi2 THEN ANTENNA_1 ELSE ANTENNA_2)
         ELSE IF rx1 = RX_STATUS_VALID THEN ANTENNA_1
         ELSE IF rx2 = RX_STATUS_VALID THEN ANTENNA_2
         ELSE (IF rssi1 > rssi2 THEN ANTENNA_1 ELSE ANTENNA_2)
    ELSE IF use2 THEN ANTENNA_2
    ELSE ANTENNA_1

\* process_received_cmd_rx_frame, reached from handle_receive through
\* process_received_frame when the frame is not a FRAME_TYPE_RX frame.
process_received_cmd_rx_frame(type, frame) ==
    IF frame.kind \in {"CMD_RX_SETUPDATA", "CMD_RX_ACK"} THEN "NORMAL" ELSE type

\* handle_receive reading rxFrame whatever the antenna.
handle_receive_frame_first(antenna, frame1, frame2) == frame1

\* handle_receive: the frame buffer of the antenna.
handle_receive_frame(antenna, frame1, frame2) ==
    IF antenna = ANTENNA_1 THEN frame1 ELSE frame2

\* handle_receive's output to serial: process_received_frame writes the
\* payload of a FRAME_TYPE_RX frame.
handle_receive_serial(rx_status, frame) ==
    IF rx_status # RX_STATUS_INVALID /\ frame.kind = "data" THEN frame.payload ELSE "none"

\* handle_receive's effect on the command slot.
handle_receive_type(type, rx_status, frame) ==
    IF rx_status # RX_STATUS_INVALID /\ frame.kind # "data"
    THEN process_received_cmd_rx_frame(type, frame)
    ELSE type

\* handle_receive counting fresh serial data for every frame it is called
\* with.
handle_receive_counts_fresh_always(rx_status, frame) ==
    {"frames_received", "fresh_serial_data_received"}
        \cup (IF rx_status # RX_STATUS_INVALID THEN {"valid_frames_received"} ELSE {})

\* handle_receive: the LQ counters one call increments.  doFrameReceived is
\* called for every frame, doValidFrameReceived in the branch that processes
\* the frame, and process_received_frame increments fresh_serial_data_received
\* past the return for command frames.
handle_receive_counts(rx_status, frame) ==
    {"frames_received"}
        \cup (IF rx_status # RX_STATUS_INVALID THEN {"valid_frames_received"} ELSE {})
        \cup (IF rx_status # RX_STATUS_INVALID /\ frame.kind = "data"
              THEN {"fresh_serial_data_received"} ELSE {})

\* txstats.Next(): the frame that was just counted goes into the ring, the
\* oldest frame leaves it.
TxStatsNext(ring, counts) ==
    [i \in 1..LqPeriod |-> IF i < LqPeriod THEN ring[i + 1] ELSE counts]

\* The frames of the ring that incremented a counter.
LqCount(ring, counter) == Cardinality({i \in 1..LqPeriod : counter \in ring[i]})

\* txstats.GetLQ(): LQ = 100 x valid frames / W
GetLQ(ring) == (100 * LqCount(ring, "valid_frames_received")) \div LqPeriod

\* txstats.GetLQ_serial_data()
GetLQ_serial_data(ring) == (100 * LqCount(ring, "fresh_serial_data_received")) \div LqPeriod

\* The switch counting the frame that leaves LISTEN.
ConnectOnValid_from_one(cs, sync_cnt) ==
    IF cs = "LISTEN" THEN <<"SYNC", 1>>
    ELSE IF cs = "SYNC"
         THEN LET n == (sync_cnt + 1) % 256
              IN  <<IF n >= CONNECT_SYNC_CNT THEN "CONNECTED" ELSE "SYNC", n>>
    ELSE <<"CONNECTED", sync_cnt>>

\* The switch that a valid frame takes on connect_state:
\* <<connect_state, connect_sync_cnt>> after it.
ConnectOnValid(cs, sync_cnt) ==
    IF cs = "LISTEN" THEN <<"SYNC", 0>>
    ELSE IF cs = "SYNC"
         THEN LET n == (sync_cnt + 1) % 256
              IN  <<IF n >= CONNECT_SYNC_CNT THEN "CONNECTED" ELSE "SYNC", n>>
    ELSE <<"CONNECTED", sync_cnt>>

\* The valid-frame branch without the re-arm.
ConnectTmoArm_never(tmo_cnt, valid) == tmo_cnt

\* connect_tmo_cnt = CONNECT_TMO_SYSTICKS, at the end of the valid-frame branch.
ConnectTmoArm(tmo_cnt, valid) == IF valid THEN CONNECT_TMO_SYSTICKS ELSE tmo_cnt

\* The expiry check applied in every connection state.
ConnectExpire_any_state(cs, tmo_cnt) == IF tmo_cnt = 0 THEN "LISTEN" ELSE cs

\* The pre-transmit step without the expiry check.
ConnectExpire_never(cs, tmo_cnt) == cs

\* if (connected() && !connect_tmo_cnt) connect_state = CONNECT_STATE_LISTEN;
ConnectExpire(cs, tmo_cnt) == IF cs = "CONNECTED" /\ tmo_cnt = 0 THEN "LISTEN" ELSE cs

\* The Connection FSM of the pre-transmit step:
\* <<connect_state, connect_sync_cnt, connect_tmo_cnt>> after it.
ConnectFsm(cs, sync_cnt, tmo_cnt, valid) ==
    LET a == IF valid THEN ConnectOnValid(cs, sync_cnt) ELSE <<cs, sync_cnt>>
        tmo == ConnectTmoArm(tmo_cnt, valid)
        csB == ConnectExpire(a[1], tmo)
        syncB == IF csB = "CONNECTED" /\ ~valid THEN 0 ELSE a[2]
    IN  <<csB, syncB, tmo>>

\* stats.Clear()
StatsClear(st) == [st EXCEPT !.last_rx_rssi1 = RSSI_INVALID, !.last_rx_rssi2 = RSSI_INVALID]

\* The history of the Connection FSM's input, kept for the properties.
\* A pre-transmit step that clears no statistics.
StatsUnlessConnected_kept(cs, st) == st

\* if (!connected()) stats.Clear(), on the state the Connection FSM has left.
StatsUnlessConnected(cs, st) == IF cs # "CONNECTED" THEN StatsClear(st) ELSE st

NextHist(h, cs, valid) ==
    IF valid
    THEN [valid_run |-> Min(h.valid_run + 1, CONNECT_SYNC_CNT + 1),
          from_listen |-> IF h.valid_run = 0 THEN cs = "LISTEN" ELSE h.from_listen,
          novalid_run |-> 0, from_connected |-> FALSE]
    ELSE [valid_run |-> 0, from_listen |-> FALSE,
          novalid_run |-> Min(h.novalid_run + 1, CONNECT_TMO_SYSTICKS),
          from_connected |-> IF h.novalid_run = 0 THEN cs = "CONNECTED" ELSE h.from_connected]

PreTransmitWith(hist, ring) ==
    /\ pc = "pre"
    /\ doPreTransmit
    /\ doPreTransmit' = FALSE
    /\ LET antenna == SelectAntenna(USE_ANTENNA1, USE_ANTENNA2, link_rx1_status,
                                    link_rx2_status, stats.last_rx_rssi1, stats.last_rx_rssi2)
           rx_status == IF antenna = ANTENNA_1 THEN link_rx1_status ELSE link_rx2_status
           frame == handle_receive_frame(antenna, rxFrame, rxFrame2)
           fsm == ConnectFsm(connect_state, connect_sync_cnt, connect_tmo_cnt,
                             valid_frame_received)
           statsA == IF frame_received THEN [stats EXCEPT !.last_rx_antenna = antenna]
                     ELSE stats
       IN  /\ transmit_frame_type' =
                  IF frame_received
                  THEN handle_receive_type(transmit_frame_type, rx_status, frame)
                  ELSE transmit_frame_type
           /\ serial_out' =
                  IF frame_received THEN handle_receive_serial(rx_status, frame) ELSE "none"
           /\ connect_state' = fsm[1]
           /\ connect_sync_cnt' = fsm[2]
           /\ connect_tmo_cnt' = fsm[3]
           /\ stats' = StatsUnlessConnected(fsm[1], statsA)
    /\ conn_hist' = hist
    /\ txstats' = ring
    /\ link_state' = "TRANSMIT"
    /\ link_rx1_status' = RX_STATUS_NONE
    /\ link_rx2_status' = RX_STATUS_NONE
    /\ cyc' = [NoCycle EXCEPT !.loops = cyc.loops, !.task_runs = cyc.task_runs,
                              !.stored = cyc.stored]
    /\ pc' = "cmd"
    /\ UNCHANGED <<antennas, doSysTask, tx_tick, irq_status, irq2_status,
                   setup_rx_param_changed, whileTransmit, fhss_curr_i, rxFrame, rxFrame2,
                   sx, sx2, spi, txFrame, channelOrder, rcData, rc_hist, pin5, msp>>

\* The pre-transmit step, the history of the Connection FSM's input kept and
\* the LQ ring left out.
PreTransmit ==
    PreTransmitWith(NextHist(conn_hist, connect_state, valid_frame_received), txstats)

NoPreTransmit ==
    /\ pc = "pre"
    /\ ~doPreTransmit
    /\ pc' = "cmd"
    /\ UNCHANGED <<antennas, doSysTask, tx_tick, doPreTransmit, link_state, connect_state,
                   connect_tmo_cnt, connect_sync_cnt, link_rx1_status, link_rx2_status,
                   irq_status, irq2_status, transmit_frame_type, setup_rx_param_changed,
                   whileTransmit, stats, fhss_curr_i, rxFrame, rxFrame2, sx, sx2, spi,
                   cyc, conn_hist, txFrame, serial_out, txstats,
                   channelOrder, rcData, rc_hist, pin5, msp>>

\* ------------------------------------------------- handset commands ----
\* mbridge_do_ParamSet: a parameter set from the handset latches
\* setup_rx_param_changed.
mbridge_do_ParamSet(changed) == TRUE

\* mbridge.CommandReceived(&cmd) and the switch on cmd.
HandsetCommand(cmds) ==
    /\ pc = "cmd"
    /\ \E cmd \in cmds \cup {"none"} :
          /\ transmit_frame_type' =
                 IF cmd = "PARAM_STORE" THEN "CMD_STORE_RX_PARAMS" ELSE transmit_frame_type
          /\ whileTransmit' =
                 IF cmd = "PARAM_STORE"
                 THEN [whileTransmit EXCEPT !.tasks = @ \cup {"STORE_PARAMS"}]
                 ELSE whileTransmit
          /\ setup_rx_param_changed' =
                 IF cmd = "PARAM_SET" THEN mbridge_do_ParamSet(setup_rx_param_changed)
                 ELSE setup_rx_param_changed
          /\ cyc' = IF cmd = "PARAM_STORE" THEN [cyc EXCEPT !.stored = TRUE] ELSE cyc
    /\ pc' = "do"
    /\ UNCHANGED <<antennas, doSysTask, tx_tick, doPreTransmit, link_state, connect_state,
                   connect_tmo_cnt, connect_sync_cnt, link_rx1_status, link_rx2_status,
                   irq_status, irq2_status, stats, fhss_curr_i, rxFrame, rxFrame2, sx, sx2,
                   spi, conn_hist, txFrame, serial_out, txstats,
                   channelOrder, rcData, rc_hist, pin5, msp>>

\* WhileTransmit::Do running a pending task in whatever call finds one.
WhileTransmitDo_any_call(w) ==
    [do_cnt |-> IF w.do_cnt = 0 THEN 0 ELSE w.do_cnt - 1,
     tasks |-> w.tasks \ {"STORE_PARAMS"}]

\* WhileTransmit::Do running the task one call before the count is down.
WhileTransmitDo_early(w) ==
    IF w.do_cnt = 0 THEN w
    ELSE IF w.do_cnt - 1 # 1 THEN [w EXCEPT !.do_cnt = @ - 1]
    ELSE [do_cnt |-> 1, tasks |-> w.tasks \ {"STORE_PARAMS"}]

\* ---------------------------------------------------- WhileTransmit ----
\* WhileTransmit::Do with handle_tasks: [do_cnt, tasks] after the call.
WhileTransmitDo(w) ==
    IF w.do_cnt = 0 THEN w
    ELSE IF w.do_cnt - 1 # 0 THEN [w EXCEPT !.do_cnt = @ - 1]
    ELSE IF w.tasks = {} THEN [w EXCEPT !.do_cnt = 0]
    ELSE [do_cnt |-> 0, tasks |-> w.tasks \ {"STORE_PARAMS"}]

DoWhileTransmit ==
    /\ pc = "do"
    /\ whileTransmit' = WhileTransmitDo(whileTransmit)
    /\ cyc' = [cyc EXCEPT !.loops = Min(@ + 1, WHILE_TRANSMIT_DELAY),
                          !.task_runs = IF whileTransmit'.tasks # whileTransmit.tasks
                                        THEN Min(@ + 1, 2) ELSE @]
    /\ pc' = "sys"
    /\ UNCHANGED <<antennas, doSysTask, tx_tick, doPreTransmit, link_state, connect_state,
                   connect_tmo_cnt, connect_sync_cnt, link_rx1_status, link_rx2_status,
                   irq_status, irq2_status, transmit_frame_type, setup_rx_param_changed,
                   stats, fhss_curr_i, rxFrame, rxFrame2, sx, sx2, spi, conn_hist,
                   txFrame, serial_out, txstats, channelOrder, rcData, rc_hist, pin5,
                   msp>>

\* ---------------------------------------------------- specification ----
Handset == HandsetCommand({})

Next ==
    \/ SysTick_Handler
    \/ SX_DIO_EXTI_IRQHandler
    \/ SX2_DIO_EXTI_IRQHandler
    \/ SysTask
    \/ NoSysTask
    \/ LinkIdle
    \/ LinkTransmit
    \/ LinkReceive
    \/ IrqHandling
    \/ Irq2Handling
    \/ PreTransmit
    \/ NoPreTransmit
    \/ Handset
    \/ DoWhileTransmit

Spec == Init /\ [][Next]_vars

\* ------------------------------------ the command slot and the handset --
\* The antenna 1 build on a band of its own: a transmission ends by TX_DONE
\* and the frames heard carry the link's sync word.  The receiver answers
\* with FRAME_TYPE_RX frames and with command frames (a frame that fails the
\* CRC is a "data" frame here, its type byte meaning nothing), and the
\* handset sends PARAM_STORE and changes parameters.
CmdFrames ==
    {f \in AirFrames({"data", "CMD_RX_SETUPDATA", "CMD_RX_ACK"}, {"pa"}) :
        f.kind # "data" => f.crc_ok}

CmdHwEvents(m) ==
    {ev \in HwEvents(m) :
        /\ m.mode = "tx" => ev.st = {SX12xx_IRQ_TX_DONE}
        /\ SX12xx_IRQ_RX_DONE \in ev.st => ev.sx.buf.sync_word = Config_FrameSyncWord}

SX_DIO_EXTI_IRQHandlerCmd == SX_DIO_EXTI_IRQHandlerOn(CmdHwEvents(sx))

IrqHandlingCmd == IrqHandlingOf(CmdFrames, {-70})

\* The pre-transmit step, the history of the Connection FSM's input and the
\* LQ ring left out.
PreTransmitCmd == PreTransmitWith(conn_hist, txstats)

HandsetOperator == HandsetCommand({"PARAM_STORE", "PARAM_SET"})

InitCmd == Init /\ antennas = {ANTENNA_1}

NextCmd ==
    \/ SysTick_Handler
    \/ SX_DIO_EXTI_IRQHandlerCmd
    \/ SysTask
    \/ NoSysTask
    \/ LinkIdle
    \/ LinkTransmit
    \/ LinkReceive
    \/ IrqHandlingCmd
    \/ Irq2Handling
    \/ PreTransmitCmd
    \/ NoPreTransmit
    \/ HandsetOperator
    \/ DoWhileTransmit

SpecCmd == InitCmd /\ [][NextCmd]_vars

\* The command slot with a receiver that answers every frame it hears with
\* a valid command reply, under a timer that keeps ticking and a transceiver
\* that keeps signalling: the loop runs on, frames go out and every request
\* is answered.
AckFrames == {f \in CmdFrames : f.kind # "data" /\ f.sync_word = Config_FrameSyncWord}

AckHwEvents(m) == {ev \in CmdHwEvents(m) : ev.st # {SX12xx_IRQ_TIMEOUT}}

SX_DIO_EXTI_IRQHandlerAck == SX_DIO_EXTI_IRQHandlerOn(AckHwEvents(sx))

IrqHandlingAck == IrqHandlingOf(AckFrames, {-70})

NextAck ==
    \/ SysTick_Handler
    \/ SX_DIO_EXTI_IRQHandlerAck
    \/ SysTask
    \/ NoSysTask
    \/ LinkIdle
    \/ LinkTransmit
    \/ LinkReceive
    \/ IrqHandlingAck
    \/ Irq2Handling
    \/ PreTransmitCmd
    \/ NoPreTransmit
    \/ HandsetOperator
    \/ DoWhileTransmit

SpecAckFair ==
    /\ InitCmd
    /\ [][NextAck]_vars
    /\ WF_vars(NextAck)
    /\ SF_vars(SysTick_Handler)
    /\ SF_vars(SX_DIO_EXTI_IRQHandlerAck)

\* ------------------------------------- the diversity build from power-on --
\* Both transceivers are SxDriver devices on their own buses.  main_main
\* reads their firmware revisions before anything else; the loop that follows
\* runs both modem ISRs and both IRQ blocks.
InitDiversity ==
    /\ antennas = {ANTENNA_1, ANTENNA_2}
    /\ pc = "boot"
    /\ doSysTask = FALSE
    /\ tx_tick = 0
    /\ doPreTransmit = FALSE
    /\ link_state = "IDLE"
    /\ connect_state = "LISTEN"
    /\ connect_tmo_cnt = 0
    /\ connect_sync_cnt = 0
    /\ link_rx1_status = RX_STATUS_NONE
    /\ link_rx2_status = RX_STATUS_NONE
    /\ irq_status = {}
    /\ irq2_status = {}
    /\ transmit_frame_type = "NORMAL"
    /\ setup_rx_param_changed = FALSE
    /\ whileTransmit = [do_cnt |-> 0, tasks |-> {}]
    /\ stats = [transmit_seq_no |-> 0, last_rx_rssi1 |-> RSSI_INVALID,
                last_rx_rssi2 |-> RSSI_INVALID, last_rx_antenna |-> ANTENNA_1]
    /\ fhss_curr_i = 0
    /\ rxFrame = NoFrame
    /\ rxFrame2 = NoFrame
    /\ sx \in {PowerOn(r) : r \in FirmwareRevs}
    /\ sx2 \in {PowerOn(r) : r \in FirmwareRevs}
    /\ spi = [a \in {ANTENNA_1, ANTENNA_2} |-> Main("Reset")]
    /\ txFrame = [frame_type |-> "none", serial |-> FALSE]
    /\ serial_out = "none"
    /\ cyc = NoCycle
    /\ conn_hist = NoHist
    /\ txstats = TxStatsInit
    /\ channelOrder = ChannelOrderNew
    /\ rcData = NoRcData
    /\ rc_hist = NoRcHist
    /\ pin5 = Pin5Init
    /\ msp = MspInit

\* main_main up to the loop: the two isOk checks with their endless blink
\* loops, StartUp, the FHSS start, the first SetRfFrequency and the
\* initial values of the loop's state.
StartUpSx ==
    /\ pc = "boot"
    /\ IF ~isOk(sx) \/ ~isOk(sx2)
       THEN /\ pc' = IF ~isOk(sx) THEN "blink_red" ELSE "blink_green"
            /\ spi' = [a \in {ANTENNA_1, ANTENNA_2} |->
                          IF a = ANTENNA_1 \/ isOk(sx) THEN Main("GetFirmwareRev") ELSE spi[a]]
            /\ UNCHANGED <<doSysTask, tx_tick, doPreTransmit, link_state, connect_state,
                           connect_tmo_cnt, connect_sync_cnt, link_rx1_status,
                           link_rx2_status, transmit_frame_type, whileTransmit,
                           fhss_curr_i, sx, sx2>>
       ELSE /\ sx' = IF USE_ANTENNA1 THEN StartUp(sx) ELSE sx
            /\ sx2' = IF USE_ANTENNA2 THEN StartUp(sx2) ELSE sx2
            /\ fhss_curr_i' = 0
            /\ spi' = [a \in {ANTENNA_1, ANTENNA_2} |-> Main("SetRfFrequency")]
            /\ tx_tick' = 0
            /\ doPreTransmit' = FALSE
            /\ link_state' = "IDLE"
            /\ connect_state' = "LISTEN"
            /\ connect_tmo_cnt' = 0
            /\ connect_sync_cnt' = 0
            /\ link_rx1_status' = RX_STATUS_NONE
            /\ link_rx2_status' = RX_STATUS_NONE
            /\ transmit_frame_type' = "CMD_GET_RX_SETUPDATA"
            /\ whileTransmit' = [do_cnt |-> 0, tasks |-> {}]
            /\ doSysTask' = FALSE
            /\ pc' = "sys"
    /\ UNCHANGED <<antennas, irq_status, irq2_status, setup_rx_param_changed, stats,
                   rxFrame, rxFrame2, txFrame, serial_out, cyc, conn_hist, txstats,
                   channelOrder, rcData, rc_hist, pin5, msp>>

\* The band is the link's own: a frame heard carries the link's sync word.
DivHwEvents(m) ==
    {ev \in HwEvents(m) :
        SX12xx_IRQ_RX_DONE \in ev.st => ev.sx.buf.sync_word = Config_FrameSyncWord}

SX_DIO_EXTI_IRQHandlerDiv == SX_DIO_EXTI_IRQHandlerOn(DivHwEvents(sx))

SX2_DIO_EXTI_IRQHandlerDiv == SX2_DIO_EXTI_IRQHandlerOn(DivHwEvents(sx2))

\* The two IRQ blocks, each antenna with the RSSI of its place.
IrqHandlingDiv == IrqHandlingOf(Frames, {-70})

Irq2HandlingDiv == Irq2HandlingOf(Frames, {-65})

NextDiversity ==
    \/ StartUpSx
    \/ SysTick_Handler
    \/ SX_DIO_EXTI_IRQHandlerDiv
    \/ SX2_DIO_EXTI_IRQHandlerDiv
    \/ SysTask
    \/ NoSysTask
    \/ LinkIdle
    \/ LinkTransmit
    \/ LinkReceive
    \/ IrqHandlingDiv
    \/ Irq2HandlingDiv
    \/ PreTransmitCmd
    \/ NoPreTransmit
    \/ Handset
    \/ DoWhileTransmit

SpecDiversity == InitDiversity /\ [][NextDiversity]_vars

\* ------------------------------------------- the arbiter on its inputs --
\* The diversity build at a frame tick, the loop being at the pre-transmit
\* section of a cycle whose receivers were armed: each antenna has a receive
\* status with the frame buffer and the RSSI that do_receive leaves with it
\* (for RX_STATUS_NONE, what an earlier cycle or the boot left).
ArbiterFrames == AirFrames({"data"}, {"pa", "pb"})

ArbiterInputs ==
    {[rx_status |-> st, frame |-> f, rssi |-> r] :
        st \in {RX_STATUS_NONE, RX_STATUS_INVALID, RX_STATUS_VALID},
        f \in ArbiterFrames \cup {NoFrame}, r \in RssiSet \cup {RSSI_INVALID}}

ArbiterInput(i) ==
    /\ i.frame = NoFrame => i.rx_status = RX_STATUS_NONE /\ i.rssi = RSSI_INVALID
    /\ i.frame # NoFrame => i.frame.sync_word = Config_FrameSyncWord
    /\ i.rssi = RSSI_INVALID => i.rx_status = RX_STATUS_NONE
    /\ i.rx_status = RX_STATUS_VALID => i.frame.crc_ok
    /\ i.rx_status = RX_STATUS_INVALID => ~i.frame.crc_ok

\* The link being connected, one antenna at least took a frame in this cycle
\* or has the valid frame of the cycle before.
ArbiterHeard(i) ==
    i.rssi # RSSI_INVALID /\ (i.rx_status # RX_STATUS_NONE \/ i.frame.crc_ok)

InitArbiter ==
    /\ antennas = {ANTENNA_1, ANTENNA_2}
    /\ pc = "pre"
    /\ doSysTask = FALSE
    /\ tx_tick = 0
    /\ doPreTransmit = TRUE
    /\ link_state = "RECEIVE_WAIT"
    /\ connect_state = "CONNECTED"
    /\ connect_tmo_cnt = IF CONNECT_TMO_SYSTICKS > FrameRateMs
                         THEN CONNECT_TMO_SYSTICKS - FrameRateMs ELSE 0
    /\ connect_sync_cnt = CONNECT_SYNC_CNT
    /\ \E i1 \in {i \in ArbiterInputs : ArbiterInput(i)},
          i2 \in {i \in ArbiterInputs : ArbiterInput(i)} :
          /\ ArbiterHeard(i1) \/ ArbiterHeard(i2)
          /\ link_rx1_status = i1.rx_status
          /\ link_rx2_status = i2.rx_status
          /\ rxFrame = i1.frame
          /\ rxFrame2 = i2.frame
          /\ stats = [transmit_seq_no |-> 1, last_rx_rssi1 |-> i1.rssi,
                      last_rx_rssi2 |-> i2.rssi, last_rx_antenna |-> ANTENNA_1]
    /\ irq_status = {}
    /\ irq2_status = {}
    /\ transmit_frame_type = "NORMAL"
    /\ setup_rx_param_changed = FALSE
    /\ whileTransmit = [do_cnt |-> 0, tasks |-> {}]
    /\ fhss_curr_i = 1
    /\ sx = [mode |-> "rx", buf |-> [src |-> "air", sync_word |-> Config_FrameSyncWord],
             rev |-> FirmwareRevOk]
    /\ sx2 = [mode |-> "rx", buf |-> [src |-> "air", sync_word |-> Config_FrameSyncWord],
              rev |-> FirmwareRevOk]
    /\ spi = [a \in {ANTENNA_1, ANTENNA_2} |-> Isr("GetAndClearIrqStatus")]
    /\ txFrame = [frame_type |-> "TX", serial |-> TRUE]
    /\ serial_out = "none"
    /\ cyc = [hops |-> 1, seq_incs |-> 1, sent |-> 1, tx_done_seen |-> TRUE, armed |-> 1,
              loops |-> WHILE_TRANSMIT_DELAY, task_runs |-> 0, stored |-> FALSE]
    /\ conn_hist = [valid_run |-> CONNECT_SYNC_CNT + 1, from_listen |-> TRUE,
                    novalid_run |-> 0, from_connected |-> FALSE]
    /\ txstats = TxStatsInit
    /\ channelOrder = ChannelOrderNew
    /\ rcData = NoRcData
    /\ rc_hist = NoRcHist
    /\ pin5 = Pin5Init
    /\ msp = MspInit

NextArbiter == PreTransmit

SpecArbiter == InitArbiter /\ [][NextArbiter]_vars

\* ------------------------------------------------ the LQ ring on its inputs --
\* Any build at a frame tick, the loop being at the pre-transmit section of a
\* connected link: each enabled antenna has what do_receive or an earlier
\* cycle left, and the LQ ring holds what handle_receive and
\* handle_receive_none counted for the LqPeriod frames before.
LqFrames == AirFrames({"data", "CMD_RX_ACK"}, {"pa"})

LqInputs ==
    {i \in [rx_status : {RX_STATUS_NONE, RX_STATUS_INVALID, RX_STATUS_VALID},
            frame : LqFrames \cup {NoFrame}, rssi : RssiSet \cup {RSSI_INVALID}] :
        ArbiterInput(i)}

LqCounts ==
    {{}} \cup {handle_receive_counts(i.rx_status, i.frame) : i \in LqInputs}

InitLq ==
    /\ antennas \in Builds \cup {{ANTENNA_1, ANTENNA_2}}
    /\ pc = "pre"
    /\ doSysTask = FALSE
    /\ tx_tick = 0
    /\ doPreTransmit = TRUE
    /\ link_state = "RECEIVE_WAIT"
    /\ connect_state = "CONNECTED"
    /\ connect_tmo_cnt = IF CONNECT_TMO_SYSTICKS > FrameRateMs
                         THEN CONNECT_TMO_SYSTICKS - FrameRateMs ELSE 0
    /\ connect_sync_cnt = CONNECT_SYNC_CNT
    /\ \E i1 \in LqInputs, i2 \in LqInputs :
          /\ ~USE_ANTENNA1 => i1.frame = NoFrame
          /\ ~USE_ANTENNA2 => i2.frame = NoFrame
          /\ link_rx1_status = i1.rx_status
          /\ link_rx2_status = i2.rx_status
          /\ rxFrame = i1.frame
          /\ rxFrame2 = i2.frame
          /\ stats = [transmit_seq_no |-> 1, last_rx_rssi1 |-> i1.rssi,
                      last_rx_rssi2 |-> i2.rssi, last_rx_antenna |-> ANTENNA_1]
    /\ irq_status = {}
    /\ irq2_status = {}
    /\ transmit_frame_type = "NORMAL"
    /\ setup_rx_param_changed = FALSE
    /\ whileTransmit = [do_cnt |-> 0, tasks |-> {}]
    /\ fhss_curr_i = 1
    /\ sx = [mode |-> IF USE_ANTENNA1 THEN "rx" ELSE "stdby",
             buf |-> [src |-> "air", sync_word |-> Config_FrameSyncWord],
             rev |-> FirmwareRevOk]
    /\ sx2 = [mode |-> IF USE_ANTENNA2 THEN "rx" ELSE "stdby",
              buf |-> [src |-> "air", sync_word |-> Config_FrameSyncWord],
              rev |-> FirmwareRevOk]
    /\ spi = [a \in {ANTENNA_1, ANTENNA_2} |-> Isr("GetAndClearIrqStatus")]
    /\ txFrame = [frame_type |-> "TX", serial |-> TRUE]
    /\ serial_out = "none"
    /\ cyc = [hops |-> 1, seq_incs |-> 1, sent |-> 1, tx_done_seen |-> TRUE, armed |-> 1,
              loops |-> WHILE_TRANSMIT_DELAY, task_runs |-> 0, stored |-> FALSE]
    /\ conn_hist = NoHist
    /\ txstats \in [1..LqPeriod -> LqCounts]
    /\ channelOrder = ChannelOrderNew
    /\ rcData = NoRcData
    /\ rc_hist = NoRcHist
    /\ pin5 = Pin5Init
    /\ msp = MspInit

\* The pre-transmit step, the LQ ring kept.
PreTransmitLq ==
    LET antenna == SelectAntenna(USE_ANTENNA1, USE_ANTENNA2, link_rx1_status,
                                 link_rx2_status, stats.last_rx_rssi1, stats.last_rx_rssi2)
        rx_status == IF antenna = ANTENNA_1 THEN link_rx1_status ELSE link_rx2_status
        frame == handle_receive_frame(antenna, rxFrame, rxFrame2)
        counts == IF frame_received THEN handle_receive_counts(rx_status, frame) ELSE {}
    IN  PreTransmitWith(conn_hist, TxStatsNext(txstats, counts))

NextLq == PreTransmitLq

SpecLq == InitLq /\ [][NextLq]_vars

\* ------------------------------------------------------ channel order ----
CHANNEL_ORDER_AETR == "AETR"
CHANNEL_ORDER_TAER == "TAER"
CHANNEL_ORDER_ETAR == "ETAR"
ChannelOrders == {CHANNEL_ORDER_AETR, CHANNEL_ORDER_TAER, CHANNEL_ORDER_ETAR}

\* The values a channel takes and the channel sets that come in.
RcValues == {1, 1024, 2047}
RcInputs == [0..4 -> RcValues]

\* ChannelOrder::Set
ChannelOrderSet(co, new_channel_order) ==
    IF new_channel_order = co.channel_order THEN co
    ELSE [channel_order |-> new_channel_order,
          channel_map |-> IF new_channel_order = CHANNEL_ORDER_ETAR
                          THEN [n \in 0..3 |-> CASE n = 0 -> 2 [] n = 1 -> 0
                                                 [] n = 2 -> 1 [] OTHER -> 3]
                          ELSE co.channel_map]

\* ChannelOrder::Apply
ChannelOrderApply(co, ch) ==
    [n \in 0..4 |-> IF n < 4 THEN ch[co.channel_map[n]] ELSE ch[n]]

\* The orders set so far, as they changed: the last three of them.
NextOrders(orders, co, new_channel_order) ==
    IF new_channel_order = co.channel_order THEN orders
    ELSE LET all == Append(orders, new_channel_order)
         IN  IF Len(all) > 3 THEN Tail(all) ELSE all

\* A channel source has new channels: channelOrder.Set(Setup.Tx.ChannelOrder)
\* and channelOrder.Apply(&rcData), Setup.Tx.ChannelOrder being what the
\* parameters have at the time.
ChannelsUpdated ==
    /\ \E order \in ChannelOrders, ch \in RcInputs :
          LET co == ChannelOrderSet(channelOrder, order)
          IN  /\ channelOrder' = co
              /\ rcData' = [ch |-> ChannelOrderApply(co, ch)]
              /\ rc_hist' = [orders |-> NextOrders(rc_hist.orders, channelOrder, order),
                             ch_in |-> ch]
    /\ UNCHANGED <<antennas, pc, doSysTask, tx_tick, doPreTransmit, link_state,
                   connect_state, connect_tmo_cnt, connect_sync_cnt, link_rx1_status,
                   link_rx2_status, irq_status, irq2_status, transmit_frame_type,
                   setup_rx_param_changed, whileTransmit, stats, fhss_curr_i, rxFrame,
                   rxFrame2, sx, sx2, spi, txFrame, serial_out, cyc, conn_hist, txstats,
                   pin5, msp>>

NextChannelOrder == ChannelsUpdated

SpecChannelOrder == InitCmd /\ [][NextChannelOrder]_vars

\* ------------------------------------------- the handset UART bridge ----

\* STATE_ENUM of tPin5BridgeBase, in the order of the enum.
Pin5States ==
    <<"STATE_IDLE",
      "STATE_RECEIVE_MBRIDGE_STX2", "STATE_RECEIVE_MBRIDGE_LEN",
      "STATE_RECEIVE_MBRIDGE_SERIALPACKET", "STATE_RECEIVE_MBRIDGE_CHANNELPACKET",
      "STATE_RECEIVE_MBRIDGE_COMMANDPACKET",
      "STATE_RECEIVE_CRSF_LEN", "STATE_RECEIVE_CRSF_PAYLOAD", "STATE_RECEIVE_CRSF_CRC",
      "STATE_TRANSMIT_START", "STATE_TRANSMITING">>

\* The numeric value of a state of the enum.
Pin5StateNo(s) == (CHOOSE i \in 1..Len(Pin5States) : Pin5States[i] = s) - 1

\* parse_nextchar is pure virtual; the mBridge and CRSF children move the
\* parser from STATE_IDLE and the receive states through the receive states
\* and to STATE_TRANSMIT_START at the end of a frame, and leave a transmit
\* state as it is.
parse_nextchar(state) ==
    IF Pin5StateNo(state) >= Pin5StateNo("STATE_TRANSMIT_START") THEN {state}
    ELSE {s \in {Pin5States[i] : i \in 1..Len(Pin5States)} :
             Pin5StateNo(s) <= Pin5StateNo("STATE_TRANSMIT_START")}

\* uart_rx_callback without the reset of a bridge found transmitting.
uart_rx_state_no_reset(parsed, start) ==
    IF parsed # "STATE_TRANSMIT_START" THEN parsed
    ELSE IF start THEN "STATE_TRANSMITING"
    ELSE "STATE_IDLE"

\* uart_rx_callback: the state after a character has been parsed;
\* start is what transmit_start() answers.
uart_rx_state(parsed, start) ==
    IF Pin5StateNo(parsed) < Pin5StateNo("STATE_TRANSMIT_START") THEN parsed
    ELSE IF parsed # "STATE_TRANSMIT_START" THEN "STATE_IDLE"
    ELSE IF start THEN "STATE_TRANSMITING"
    ELSE "STATE_IDLE"

\* The time without a transmit-complete callback, as the bridge enters state s.
Pin5Stuck(s, stuck_ms) == IF s = "STATE_TRANSMITING" THEN stuck_ms ELSE 0

uart_rx_callback ==
    /\ \E parsed \in parse_nextchar(pin5.state), start \in BOOLEAN :
         LET s == uart_rx_state(parsed, start) IN
         pin5' = [pin5 EXCEPT !.state = s, !.stuck_ms = Pin5Stuck(s, pin5.stuck_ms),
                              !.parsed = parsed,
                              !.started = IF parsed # "STATE_TRANSMIT_START"
                                          THEN "not called"
                                          ELSE IF start THEN "true" ELSE "false"]
    /\ UNCHANGED <<antennas, pc, doSysTask, tx_tick, doPreTransmit, link_state,
                   connect_state, connect_tmo_cnt, connect_sync_cnt, link_rx1_status,
                   link_rx2_status, irq_status, irq2_status, transmit_frame_type,
                   setup_rx_param_changed, whileTransmit, stats, fhss_curr_i, rxFrame,
                   rxFrame2, sx, sx2, spi, txFrame, serial_out, cyc, conn_hist, txstats,
                   channelOrder, rcData, rc_hist, msp>>

\* uart_tc_callback: the transmission is complete, the bridge receives again.
\* The UART raises it only for a running transmission, and may miss it.
uart_tc_callback ==
    /\ pin5.state = "STATE_TRANSMITING"
    /\ pin5' = [pin5 EXCEPT !.state = "STATE_IDLE", !.stuck_ms = 0]
    /\ UNCHANGED <<antennas, pc, doSysTask, tx_tick, doPreTransmit, link_state,
                   connect_state, connect_tmo_cnt, connect_sync_cnt, link_rx1_status,
                   link_rx2_status, irq_status, irq2_status, transmit_frame_type,
                   setup_rx_param_changed, whileTransmit, stats, fhss_curr_i, rxFrame,
                   rxFrame2, sx, sx2, spi, txFrame, serial_out, cyc, conn_hist, txstats,
                   channelOrder, rcData, rc_hist, msp>>

\* TelemetryStart
TelemetryStart ==
    /\ ~pin5.telemetry_start_next_tick
    /\ pin5' = [pin5 EXCEPT !.telemetry_start_next_tick = TRUE]
    /\ UNCHANGED <<antennas, pc, doSysTask, tx_tick, doPreTransmit, link_state,
                   connect_state, connect_tmo_cnt, connect_sync_cnt, link_rx1_status,
                   link_rx2_status, irq_status, irq2_status, transmit_frame_type,
                   setup_rx_param_changed, whileTransmit, stats, fhss_curr_i, rxFrame,
                   rxFrame2, sx, sx2, spi, txFrame, serial_out, cyc, conn_hist, txstats,
                   channelOrder, rcData, rc_hist, msp>>

\* CheckAndRescue: the body is empty, no field of the bridge is written and
\* no call is made.
CheckAndRescue ==
    /\ ~pin5.rescue_checked
    /\ pin5' = [pin5 EXCEPT !.rescue_checked = TRUE]
    /\ UNCHANGED <<antennas, pc, doSysTask, tx_tick, doPreTransmit, link_state,
                   connect_state, connect_tmo_cnt, connect_sync_cnt, link_rx1_status,
                   link_rx2_status, irq_status, irq2_status, transmit_frame_type,
                   setup_rx_param_changed, whileTransmit, stats, fhss_curr_i, rxFrame,
                   rxFrame2, sx, sx2, spi, txFrame, serial_out, cyc, conn_hist, txstats,
                   channelOrder, rcData, rc_hist, msp>>

\* A millisecond passes.
Pin5Millisecond ==
    /\ pin5' = [pin5 EXCEPT !.millis = (pin5.millis + 1) % MillisMod,
                            !.stuck_ms = Pin5Stuck(pin5.state, Min(pin5.stuck_ms + 1, StuckMax)),
                            !.rescue_checked = FALSE]
    /\ UNCHANGED <<antennas, pc, doSysTask, tx_tick, doPreTransmit, link_state,
                   connect_state, connect_tmo_cnt, connect_sync_cnt, link_rx1_status,
                   link_rx2_status, irq_status, irq2_status, transmit_frame_type,
                   setup_rx_param_changed, whileTransmit, stats, fhss_curr_i, rxFrame,
                   rxFrame2, sx, sx2, spi, txFrame, serial_out, cyc, conn_hist, txstats,
                   channelOrder, rcData, rc_hist, msp>>

NextPin5 ==
    \/ uart_rx_callback
    \/ uart_tc_callback
    \/ TelemetryStart
    \/ CheckAndRescue
    \/ Pin5Millisecond

SpecPin5 == InitCmd /\ [][NextPin5]_vars

\* ------------------------------------------- the MSP interface (receiver) --

\* INCc(x, period): an up-counter that wraps to zero at period.
INCc(x, period) == IF x + 1 >= period THEN 0 ELSE x + 1

\* tnow_ms - tlast_ms in the unsigned arithmetic of the clock.
MspElapsed(tnow_ms, tlast_ms) == (tnow_ms - tlast_ms + MillisMod32) % MillisMod32

\* FifoBase::HasSpace
MspHasSpace(fifo, n) == MspFifoSize - fifo >= n

\* FifoBase::PutBuf of len chars: the chars that do not fit are lost.
MspPutBuf(fifo, len) == Min(MspFifoSize, fifo + len)

\* The read loop of Do on the complete messages found on serial, given by
\* their frame lengths: <<chars in the FIFO, a PutBuf lacked space>> after it.
RECURSIVE MspReadLoop(_, _, _)
MspReadLoop(fifo, overflow, msgs) ==
    IF msgs = <<>> THEN <<fifo, overflow>>
    ELSE MspReadLoop(MspPutBuf(fifo, Head(msgs)),
                     overflow \/ ~MspHasSpace(fifo, Head(msgs)),
                     Tail(msgs))

\* if (fifo_link_out.HasSpace(MSP_FRAME_LEN_MAX + 16)) { while (serial.available()) ... }
MspParse(fifo, msgs) ==
    IF MspHasSpace(fifo, MSP_FRAME_LEN_MAX + MspSpare)
    THEN MspReadLoop(fifo, FALSE, msgs)
    ELSE <<fifo, FALSE>>

\* The silence test passing at the threshold itself.
MspSilent_at_threshold(tnow_ms, tlast_ms) == MspElapsed(tnow_ms, tlast_ms) >= MspSilenceMs

\* if ((tnow_ms - msp_request_tlast_ms) > 1500)
MspSilent(tnow_ms, tlast_ms) == MspElapsed(tnow_ms, tlast_ms) > MspSilenceMs

\* switch (tick): the request of a tick, "none" for a tick without a case.
MspRequestOfTick(tick) ==
    IF tick \in {0, 5, 10, 15} THEN "MSP_ATTITUDE"
    ELSE IF tick \in {2, 6, 11, 16} THEN "MSP_ALTITUDE"
    ELSE IF tick \in {3, 7, 12, 17} THEN "MSP_INAV_STATUS"
    ELSE "none"

\* The serial inputs of one Do call: the frame lengths of the complete
\* messages waiting on serial, each the shortest or the longest frame.
MspSerialInputs ==
    UNION {[1..n -> {1, MSP_FRAME_LEN_MAX}] : n \in 0..MaxSerialMsgs}

\* tRxMsp::Do
MspDo ==
    /\ \E conn \in BOOLEAN, msgs \in MspSerialInputs :
         LET tnow_ms == msp.millis
             flushed == IF ~conn THEN 0 ELSE msp.fifo
             parsed == MspParse(flushed, msgs)
             ticked == MspElapsed(tnow_ms, msp.tick_tlast_ms) >= MspTickMs
             tick == IF ticked THEN INCc(msp.tick, MspTickRound) ELSE msp.tick
             sent == IF MspSilent(tnow_ms, msp.msp_request_tlast_ms) /\ ticked
                     THEN MspRequestOfTick(tick) ELSE "none"
         IN  msp' = [msp EXCEPT !.fifo = parsed[1],
                                !.overflow = parsed[2],
                                !.tick_tlast_ms = IF ticked THEN tnow_ms ELSE @,
                                !.tick = tick,
                                !.sent = sent,
                                !.inject_gap_ms = IF sent # "none" THEN 0 ELSE @]
    /\ UNCHANGED <<antennas, pc, doSysTask, tx_tick, doPreTransmit, link_state,
                   connect_state, connect_tmo_cnt, connect_sync_cnt, link_rx1_status,
                   link_rx2_status, irq_status, irq2_status, transmit_frame_type,
                   setup_rx_param_changed, whileTransmit, stats, fhss_curr_i, rxFrame,
                   rxFrame2, sx, sx2, spi, txFrame, serial_out, cyc, conn_hist, txstats,
                   channelOrder, rcData, rc_hist, pin5>>

\* tRxMsp::putc of the char that completes a message of the given type.
MspPutc ==
    /\ \E type \in {"MSP_TYPE_REQUEST", "MSP_TYPE_RESPONSE"} :
         msp' = [msp EXCEPT !.msp_request_tlast_ms =
                                IF type = "MSP_TYPE_REQUEST" THEN msp.millis ELSE @,
                            !.silent_ms = IF type = "MSP_TYPE_REQUEST" THEN 0 ELSE @,
                            !.sent = "none"]
    /\ UNCHANGED <<antennas, pc, doSysTask, tx_tick, doPreTransmit, link_state,
                   connect_state, connect_tmo_cnt, connect_sync_cnt, link_rx1_status,
                   link_rx2_status, irq_status, irq2_status, transmit_frame_type,
                   setup_rx_param_changed, whileTransmit, stats, fhss_curr_i, rxFrame,
                   rxFrame2, sx, sx2, spi, txFrame, serial_out, cyc, conn_hist, txstats,
                   channelOrder, rcData, rc_hist, pin5>>

\* tRxMsp::getc, called while available() holds.
MspGetc ==
    /\ msp.fifo > 0
    /\ msp' = [msp EXCEPT !.fifo = @ - 1, !.sent = "none"]
    /\ UNCHANGED <<antennas, pc, doSysTask, tx_tick, doPreTransmit, link_state,
                   connect_state, connect_tmo_cnt, connect_sync_cnt, link_rx1_status,
                   link_rx2_status, irq_status, irq2_status, transmit_frame_type,
                   setup_rx_param_changed, whileTransmit, stats, fhss_curr_i, rxFrame,
                   rxFrame2, sx, sx2, spi, txFrame, serial_out, cyc, conn_hist, txstats,
                   channelOrder, rcData, rc_hist, pin5>>

\* A millisecond passes.
MspMillisecond ==
    /\ msp' = [msp EXCEPT !.millis = (@ + 1) % MillisMod32,
                          !.silent_ms = Min(@ + 1, MspSilenceMs + 1),
                          !.inject_gap_ms = Min(@ + 1, MspTickMs),
                          !.sent = "none"]
    /\ UNCHANGED <<antennas, pc, doSysTask, tx_tick, doPreTransmit, link_state,
                   connect_state, connect_tmo_cnt, connect_sync_cnt, link_rx1_status,
                   link_rx2_status, irq_status, irq2_status, transmit_frame_type,
                   setup_rx_param_changed, whileTransmit, stats, fhss_curr_i, rxFrame,
                   rxFrame2, sx, sx2, spi, txFrame, serial_out, cyc, conn_hist, txstats,
                   channelOrder, rcData, rc_hist, pin5>>

NextMsp ==
    \/ MspDo
    \/ MspPutc
    \/ MspGetc
    \/ MspMillisecond

SpecMsp == InitCmd /\ [][NextMsp]_vars

\* -------------------------------------------------------- properties ----
\* C1: each run of the Link FSM's Transmit state adds exactly 1 to
\* stats.transmit_seq_no and moves the FHSS index one step modulo FhssNum;
\* no other step of the loop or of an ISR changes either of them.
C1_TransmitAdvancesOnce ==
    [][/\ LinkTransmit =>
              /\ stats'.transmit_seq_no = (stats.transmit_seq_no + 1) % SeqNoMod
              /\ fhss_curr_i' = (fhss_curr_i + 1) % FhssNum
       /\ ~LinkTransmit =>
              /\ stats'.transmit_seq_no = stats.transmit_seq_no
              /\ fhss_curr_i' = fhss_curr_i]_vars

\* A frame is out after both counters wrapped around.
C1_Witness ==
    /\ link_state = "TRANSMIT_WAIT"
    /\ cyc.sent = 1
    /\ connect_state = "CONNECTED"
    /\ stats.transmit_seq_no = 0
    /\ fhss_curr_i = 0

\* C2: SetToRx (Link FSM state RECEIVE) runs only after the loop saw TX_DONE
\* in TRANSMIT_WAIT, after the SendFrame of the same cycle; the Link FSM
\* enters RECEIVE only from TRANSMIT_WAIT on a TX_DONE cause.
C2_RxArmedAfterTxDone ==
    [][/\ LinkReceive => cyc.sent = 1 /\ cyc.tx_done_seen
       /\ (link_state # "RECEIVE" /\ link_state' = "RECEIVE") =>
              /\ link_state = "TRANSMIT_WAIT"
              /\ \/ pc = "irq" /\ SX12xx_IRQ_TX_DONE \in irq_status
                 \/ pc = "irq2" /\ SX12xx_IRQ_TX_DONE \in irq2_status]_vars

\* The receiver is armed, once, in a cycle whose TX_DONE was seen.
C2_Witness ==
    /\ link_state = "RECEIVE_WAIT"
    /\ cyc.armed = 1
    /\ cyc.sent = 1
    /\ cyc.tx_done_seen

\* The step of an IRQ block that finds a timeout cause in TRANSMIT_WAIT or
\* RECEIVE_WAIT.
TimeoutObserved ==
    /\ link_state \in {"TRANSMIT_WAIT", "RECEIVE_WAIT"}
    /\ \/ IrqHandling /\ USE_ANTENNA1 /\ SX12xx_IRQ_TIMEOUT \in irq_status
       \/ Irq2Handling /\ USE_ANTENNA2 /\ SX12xx_IRQ_TIMEOUT \in irq2_status

\* C3: a timeout cause the loop finds on either IRQ word in TRANSMIT_WAIT or
\* RECEIVE_WAIT puts the Link FSM to IDLE and both receive statuses to NONE,
\* with the sequence number and the FHSS index advanced once in the cycle;
\* IDLE is left only by the pre-transmit step of the next frame tick.
C3_TimeoutEndsCycle ==
    [][/\ TimeoutObserved =>
              /\ link_state' = "IDLE"
              /\ link_rx1_status' = RX_STATUS_NONE
              /\ link_rx2_status' = RX_STATUS_NONE
              /\ cyc'.sent = 1 /\ cyc'.hops = 1 /\ cyc'.seq_incs = 1
       /\ (link_state = "IDLE" /\ link_state' # "IDLE") =>
              PreTransmit /\ link_state' = "TRANSMIT"]_vars

\* A timeout ended a cycle whose receiver had been armed.
C3_Witness ==
    /\ link_state = "IDLE"
    /\ cyc.armed = 1
    /\ cyc.hops = 1
    /\ cyc.seq_incs = 1
    /\ link_rx1_status = RX_STATUS_NONE
    /\ link_rx2_status = RX_STATUS_NONE

\* C4: an ISR run on RX_DONE that reads a sync word other than
\* Config.FrameSyncWord leaves its IRQ status word 0, and do_receive is only
\* ever called on a buffer that starts with Config.FrameSyncWord.
C4_ForeignSyncDiscarded ==
    [][/\ (SX_DIO_EXTI_IRQHandler /\ spi'[ANTENNA_1] = Isr("ReadBuffer")
              /\ sx'.buf.sync_word # Config_FrameSyncWord) => irq_status' = {}
       /\ (SX2_DIO_EXTI_IRQHandler /\ spi'[ANTENNA_2] = Isr("ReadBuffer")
              /\ sx2'.buf.sync_word # Config_FrameSyncWord) => irq2_status' = {}
       /\ (IrqHandling /\ USE_ANTENNA1 /\ irq_status # {}
              /\ IrqOutcome(link_state, irq_status).do_receive) =>
              sx.buf.sync_word = Config_FrameSyncWord
       /\ (Irq2Handling /\ USE_ANTENNA2 /\ irq2_status # {}
              /\ IrqOutcome(link_state, irq2_status).do_receive) =>
              sx2.buf.sync_word = Config_FrameSyncWord]_vars

\* The ISR has just dropped a frame with a foreign sync word.
C4_Witness ==
    /\ link_state = "RECEIVE_WAIT"
    /\ sx.mode = "rx"
    /\ sx.buf = [src |-> "air", sync_word |-> "foreign"]
    /\ spi[ANTENNA_1] = Isr("ReadBuffer")
    /\ irq_status = {}

\* C5 as claimed: no SPI transaction is ever issued from an ISR.
C5_SpiMainOnly == \A a \in antennas : spi[a].ctx = "main"

\* C5: the SPI transactions an ISR issues are GetAndClearIrqStatus and, on
\* RX_DONE, the ReadBuffer of the sync word; SetRfFrequency, SendFrame,
\* SetToRx, ReadFrame and GetPacketStatus are issued from main context only.
C5_IsrSpiIsStatusAndSyncWord ==
    \A a \in {ANTENNA_1, ANTENNA_2} :
        /\ spi[a].ctx = "isr" => spi[a].cmd \in {"GetAndClearIrqStatus", "ReadBuffer"}
        /\ spi[a].cmd \in {"SetRfFrequency", "SendFrame", "SetToRx", "ReadFrame",
                           "GetPacketStatus"} => spi[a].ctx = "main"

\* The last transaction on the bus of antenna 2 is the ISR's read of the
\* sync word.
C5_Witness ==
    /\ USE_ANTENNA2
    /\ spi[ANTENNA_2] = Isr("ReadBuffer")
    /\ irq2_status = {SX12xx_IRQ_RX_DONE}

\* What the main context owns.
MainOwned ==
    <<antennas, pc, doSysTask, tx_tick, doPreTransmit, link_state, connect_state,
      connect_tmo_cnt, connect_sync_cnt, link_rx1_status, link_rx2_status,
      transmit_frame_type, setup_rx_param_changed, whileTransmit, stats, fhss_curr_i,
      rxFrame, rxFrame2, txFrame, serial_out>>

\* C6: a modem ISR writes its own IRQ status word only: the Link FSM, the
\* Connection FSM, the receive statuses, the stats, the FHSS index, rxFrame,
\* rxFrame2 and the other antenna's IRQ status word are as before it.
C6_IsrWritesOwnWordOnly ==
    [][/\ SX_DIO_EXTI_IRQHandler => UNCHANGED <<MainOwned, irq2_status>>
       /\ SX2_DIO_EXTI_IRQHandler => UNCHANGED <<MainOwned, irq_status>>]_vars

\* The ISR has signalled the first frame; the loop has not read it yet.
C6_Witness ==
    /\ irq_status = {SX12xx_IRQ_RX_DONE}
    /\ spi[ANTENNA_1].ctx = "isr"
    /\ link_state = "RECEIVE_WAIT"
    /\ link_rx1_status = RX_STATUS_NONE
    /\ rxFrame = NoFrame

\* PreTransmit has just run: the Link FSM is at TRANSMIT and the loop is past
\* the pre-transmit section, before the next system tick task.
AfterPreTransmit == link_state = "TRANSMIT" /\ pc \in {"cmd", "do"}

C8_ConnectedNonZeroAlways == connected => connect_tmo_cnt # 0

\* C8: right after every pre-transmit step, CONNECTED implies
\* connect_tmo_cnt # 0.
C8_ConnectedNonZeroAfterPreTransmit ==
    [][PreTransmit => (connect_state' = "CONNECTED" => connect_tmo_cnt' # 0)]_vars

\* A pre-transmit step without a valid frame has left the state CONNECTED,
\* with ticks to go.
C8_Witness ==
    /\ AfterPreTransmit
    /\ connected
    /\ conn_hist.novalid_run >= 1
    /\ connect_tmo_cnt # 0

\* C9: from CONNECTED, after CONNECT_TMO_SYSTICKS cycles in a row without a
\* valid frame the connection state is LISTEN.
C9_ListenAfterTmo ==
    (conn_hist.from_connected /\ conn_hist.novalid_run >= CONNECT_TMO_SYSTICKS)
        => connect_state = "LISTEN"

\* CONNECT_TMO_SYSTICKS cycles without a valid frame have gone by since
\* CONNECTED.
C9_Witness ==
    /\ conn_hist.from_connected
    /\ conn_hist.novalid_run = CONNECT_TMO_SYSTICKS
    /\ connect_state = "LISTEN"
    /\ connect_tmo_cnt = 0

\* C10: CONNECTED is left only by a pre-transmit step that finds
\* connect_tmo_cnt = 0 and no valid frame; a pre-transmit step with an
\* invalid or a missing frame and connect_tmo_cnt # 0 leaves CONNECTED as it
\* is; a pre-transmit step with a valid frame sets connect_tmo_cnt to
\* CONNECT_TMO_SYSTICKS.
C10_LeavesConnectedOnExpiryOnly ==
    [][/\ (connect_state = "CONNECTED" /\ connect_state' # "CONNECTED") =>
              /\ PreTransmit
              /\ connect_tmo_cnt = 0
              /\ ~valid_frame_received
              /\ connect_state' = "LISTEN"
       /\ (PreTransmit /\ connected /\ ~valid_frame_received /\ connect_tmo_cnt # 0) =>
              connect_state' = "CONNECTED" /\ connect_tmo_cnt' = connect_tmo_cnt
       /\ (PreTransmit /\ valid_frame_received) =>
              connect_tmo_cnt' = CONNECT_TMO_SYSTICKS]_vars

\* A frame with a CRC error came in the cycle after a valid one, and the
\* state is CONNECTED still.
C10_Witness ==
    /\ AfterPreTransmit
    /\ USE_ANTENNA1
    /\ connected
    /\ conn_hist.from_connected
    /\ conn_hist.novalid_run = 1
    /\ rxFrame.sync_word = Config_FrameSyncWord
    /\ ~rxFrame.crc_ok

\* C11: in the diversity build, when exactly one of link_rx1_status and
\* link_rx2_status is RX_STATUS_VALID at the pre-transmit step, handle_receive
\* is called for that antenna, whatever the other status and the two RSSI.
C11_OneValidSelected ==
    [][(PreTransmit /\ USE_ANTENNA1 /\ USE_ANTENNA2) =>
          /\ (link_rx1_status = RX_STATUS_VALID /\ link_rx2_status # RX_STATUS_VALID) =>
                 stats'.last_rx_antenna = ANTENNA_1
          /\ (link_rx2_status = RX_STATUS_VALID /\ link_rx1_status # RX_STATUS_VALID) =>
                 stats'.last_rx_antenna = ANTENNA_2]_vars

\* Antenna 2 was taken for its valid frame, antenna 1 having the better RSSI
\* with a frame that failed the CRC.
C11_Witness ==
    /\ pc = "cmd"
    /\ USE_ANTENNA1 /\ USE_ANTENNA2
    /\ stats.last_rx_antenna = ANTENNA_2
    /\ stats.last_rx_rssi1 > stats.last_rx_rssi2
    /\ ~rxFrame.crc_ok
    /\ rxFrame2.crc_ok

\* C12: in the diversity build with both statuses RX_STATUS_VALID, antenna 1
\* is selected when its RSSI is greater than antenna 2's and antenna 2
\* otherwise, and the payload written to serial is that of the selected
\* antenna's frame buffer.
C12_BothValidByRssi ==
    [][(PreTransmit /\ USE_ANTENNA1 /\ USE_ANTENNA2
           /\ link_rx1_status = RX_STATUS_VALID /\ link_rx2_status = RX_STATUS_VALID) =>
          /\ stats'.last_rx_antenna =
                 IF stats.last_rx_rssi1 > stats.last_rx_rssi2 THEN ANTENNA_1 ELSE ANTENNA_2
          /\ serial_out' = IF stats.last_rx_rssi1 > stats.last_rx_rssi2
                           THEN rxFrame.payload ELSE rxFrame2.payload]_vars

\* -70 on antenna 1 against -65 on antenna 2, both frames valid with
\* payloads that differ: antenna 2's went to serial.
C12_Witness ==
    /\ pc = "cmd"
    /\ USE_ANTENNA1 /\ USE_ANTENNA2
    /\ stats.last_rx_rssi1 = -70 /\ stats.last_rx_rssi2 = -65
    /\ rxFrame.crc_ok /\ rxFrame2.crc_ok
    /\ rxFrame.payload # rxFrame2.payload
    /\ stats.last_rx_antenna = ANTENNA_2
    /\ serial_out = rxFrame2.payload

MatchingReply(type, kind) ==
    \/ type = "CMD_GET_RX_SETUPDATA" /\ kind = "CMD_RX_SETUPDATA"
    \/ type \in {"CMD_SET_RX_PARAMS", "CMD_STORE_RX_PARAMS"} /\ kind = "CMD_RX_ACK"

\* C14: transmit_frame_type goes from a request to NORMAL only in a
\* pre-transmit step that handles a valid frame carrying the reply to that
\* request (FRAME_CMD_RX_SETUPDATA for GET_RX_SETUPDATA, FRAME_CMD_RX_ACK for
\* SET_RX_PARAMS and STORE_RX_PARAMS); no other reply clears it.
C14_ClearedByMatchingReplyOnly ==
    [][(transmit_frame_type # "NORMAL" /\ transmit_frame_type' = "NORMAL") =>
          /\ pc = "pre" /\ doPreTransmit
          /\ link_rx1_status = RX_STATUS_VALID
          /\ MatchingReply(transmit_frame_type, rxFrame.kind)]_vars

\* C15: a request in the slot stays: transmit_frame_type, once not NORMAL,
\* changes only to NORMAL and only in a pre-transmit step that handles a
\* valid command reply of the receiver (not on PARAM_STORE, not on a
\* parameter change), and every transmission made meanwhile sends the
\* command frame of that request.
C15_RequestKeptUntilReply ==
    [][transmit_frame_type # "NORMAL" =>
          /\ transmit_frame_type' # transmit_frame_type =>
                 /\ transmit_frame_type' = "NORMAL"
                 /\ pc = "pre" /\ doPreTransmit
                 /\ link_rx1_status = RX_STATUS_VALID
                 /\ rxFrame.kind \in {"CMD_RX_SETUPDATA", "CMD_RX_ACK"}
          /\ LinkTransmit => txFrame'.frame_type = transmit_frame_type]_vars

\* C16: a parameter change is not lost.  setup_rx_param_changed, once set,
\* is cleared only by a transmission that finds the slot NORMAL, which makes
\* the slot SET_RX_PARAMS and sends the SET_RX_PARAMS command frame; and when
\* the slot is NORMAL again and again (the requests in flight are
\* acknowledged), a set flag is cleared at last.
C16_ParamChangeEventuallySent ==
    /\ [][(setup_rx_param_changed /\ ~setup_rx_param_changed') =>
             /\ LinkTransmit
             /\ transmit_frame_type = "NORMAL"
             /\ transmit_frame_type' = "CMD_SET_RX_PARAMS"
             /\ txFrame'.frame_type = "CMD_SET_RX_PARAMS"]_vars
    /\ ([]<>(transmit_frame_type = "NORMAL")) =>
           [](setup_rx_param_changed => <>(~setup_rx_param_changed))

\* C16, as the code has it: setup_rx_param_changed, once set, is cleared
\* only by a transmission that finds the slot NORMAL; a transmission with
\* the flag set and a request in flight leaves flag and slot as they are; a
\* transmission with the flag set and the slot NORMAL clears the flag, makes
\* the slot SET_RX_PARAMS and sends the SET_RX_PARAMS command frame.
C16_ParamChangeLatched ==
    [][/\ (setup_rx_param_changed /\ ~setup_rx_param_changed') =>
              LinkTransmit /\ transmit_frame_type = "NORMAL"
       /\ (LinkTransmit /\ setup_rx_param_changed /\ transmit_frame_type # "NORMAL") =>
              /\ setup_rx_param_changed'
              /\ transmit_frame_type' = transmit_frame_type
              /\ txFrame'.frame_type = transmit_frame_type
       /\ (LinkTransmit /\ setup_rx_param_changed /\ transmit_frame_type = "NORMAL") =>
              /\ ~setup_rx_param_changed'
              /\ transmit_frame_type' = "CMD_SET_RX_PARAMS"
              /\ txFrame' = [frame_type |-> "CMD_SET_RX_PARAMS", serial |-> FALSE]]_vars

\* The parameter change was latched by the transmission just made, which
\* sent the SET_RX_PARAMS command frame on a connected link.
C16_Witness ==
    /\ pc = "irq"
    /\ link_state = "TRANSMIT_WAIT"
    /\ cyc.sent = 1
    /\ connected
    /\ ~setup_rx_param_changed
    /\ transmit_frame_type = "CMD_SET_RX_PARAMS"
    /\ txFrame.frame_type = "CMD_SET_RX_PARAMS"

\* C17: the first transmission after a PARAM_STORE of the handset sends the
\* STORE_RX_PARAMS command frame; and the STORE_PARAMS task, set pending by
\* PARAM_STORE only, is run once: WhileTransmit::Do clears its bit in the
\* call that runs it and does not run it again.
C17_StoreFrameNextAndTaskOnce ==
    [][/\ (LinkTransmit /\ cyc.stored) => txFrame'.frame_type = "CMD_STORE_RX_PARAMS"
       /\ ("STORE_PARAMS" \notin whileTransmit.tasks
               /\ "STORE_PARAMS" \in whileTransmit'.tasks) => pc = "cmd"
       /\ ("STORE_PARAMS" \in whileTransmit.tasks
               /\ "STORE_PARAMS" \notin whileTransmit'.tasks) =>
              DoWhileTransmit /\ whileTransmit.do_cnt = 1
       /\ (DoWhileTransmit /\ "STORE_PARAMS" \notin whileTransmit.tasks) =>
              whileTransmit'.tasks = whileTransmit.tasks]_vars

\* A step that runs a deferred task: a pending bit is cleared.
TaskRun ==
    /\ whileTransmit'.tasks # whileTransmit.tasks
    /\ whileTransmit'.tasks \subseteq whileTransmit.tasks

\* C18: a pending task is run only by the call of WhileTransmit::Do that
\* takes do_cnt from 1 to 0, one task in that call and one at most between
\* two Triggers; a call that finds do_cnt at 0 changes nothing, tasks
\* pending or not.
C18_TaskOnlyAtCountDown ==
    [][/\ TaskRun =>
              /\ DoWhileTransmit
              /\ whileTransmit.do_cnt = 1 /\ whileTransmit'.do_cnt = 0
              /\ Cardinality(whileTransmit.tasks \ whileTransmit'.tasks) = 1
       /\ cyc'.task_runs <= 1
       /\ (DoWhileTransmit /\ whileTransmit.do_cnt = 0) => whileTransmit' = whileTransmit]_vars

\* A task was run in this cycle; PARAM_STORE came again afterwards and its
\* task stays pending, do_cnt being 0.
C18_Witness ==
    /\ pc = "sys"
    /\ cyc.task_runs = 1
    /\ whileTransmit.do_cnt = 0
    /\ whileTransmit.tasks = {"STORE_PARAMS"}

\* C19 as claimed: a task does not run in the loop iteration of the Trigger
\* nor in any of the 4 iterations after it, that is not before the sixth
\* call of Do since the Trigger.
C19_NotBeforeSixthIteration ==
    [][TaskRun => cyc.loops >= WHILE_TRANSMIT_DELAY]_vars

\* C19: a task runs in the fifth call of WhileTransmit::Do since the
\* Trigger and in no other: not in the loop iteration of the Trigger nor in
\* any of the 3 iterations after it, and in the 4th iteration after it.
C19_TaskInFifthDo ==
    [][TaskRun => DoWhileTransmit /\ cyc.loops = WHILE_TRANSMIT_DELAY - 1]_vars

\* The STORE_PARAMS task has just been run, by the fifth Do of the cycle.
C19_Witness ==
    /\ pc = "sys"
    /\ cyc.task_runs = 1
    /\ cyc.loops = WHILE_TRANSMIT_DELAY
    /\ whileTransmit = [do_cnt |-> 0, tasks |-> {}]
    /\ cyc.stored

\* No frame has reached a transceiver since boot.
NothingHeard == sx.buf.src # "air" /\ sx2.buf.src # "air"

\* An IRQ block is about to handle the cause c.
IrqBlockHandles(c) ==
    \/ pc = "irq" /\ USE_ANTENNA1 /\ c \in irq_status
    \/ pc = "irq2" /\ USE_ANTENNA2 /\ c \in irq2_status

\* C20 as claimed: with no receiver present every cycle is back in IDLE
\* before the frame tick moves the Link FSM to TRANSMIT.
C20_IdleBeforeFrameTick ==
    [][(PreTransmit /\ NothingHeard) => link_state = "IDLE"]_vars

\* C20: the frame tick drives the cycle.  The pre-transmit step moves the
\* Link FSM to TRANSMIT from whatever state it is in and nothing else does;
\* TRANSMIT goes to TRANSMIT_WAIT by the transmission, TRANSMIT_WAIT to
\* RECEIVE on TX_DONE, RECEIVE to RECEIVE_WAIT by arming the receivers; the
\* FSM goes to IDLE only when an IRQ block handles a TIMEOUT, and leaves
\* RECEIVE_WAIT only for IDLE on a TIMEOUT or for TRANSMIT at the frame tick.
C20_FrameTickDrivesCycle ==
    [][/\ PreTransmit => link_state' = "TRANSMIT"
       /\ (link_state' = "TRANSMIT" /\ link_state # "TRANSMIT") => PreTransmit
       /\ (link_state' = "IDLE" /\ link_state # "IDLE") =>
              IrqBlockHandles(SX12xx_IRQ_TIMEOUT)
       /\ (link_state = "IDLE" /\ link_state' # "IDLE") => PreTransmit
       /\ (link_state = "TRANSMIT" /\ link_state' # "TRANSMIT") =>
              LinkTransmit /\ link_state' = "TRANSMIT_WAIT"
       /\ (link_state = "TRANSMIT_WAIT" /\ link_state' \notin {"TRANSMIT_WAIT", "IDLE"}) =>
              \/ link_state' = "RECEIVE" /\ IrqBlockHandles(SX12xx_IRQ_TX_DONE)
              \/ PreTransmit
       /\ (link_state = "RECEIVE" /\ link_state' \notin {"RECEIVE", "IDLE"}) =>
              \/ LinkReceive /\ link_state' = "RECEIVE_WAIT"
              \/ PreTransmit
       /\ (link_state = "RECEIVE_WAIT" /\ link_state' # "RECEIVE_WAIT") =>
              \/ link_state' = "IDLE" /\ IrqBlockHandles(SX12xx_IRQ_TIMEOUT)
              \/ PreTransmit]_vars

\* A frame tick has moved the Link FSM to TRANSMIT with the receiver still
\* armed and nothing heard since boot: the cycle of the frame sent before
\* did not go back to IDLE.
C20_Witness ==
    /\ pc = "cmd"
    /\ link_state = "TRANSMIT"
    /\ USE_ANTENNA1
    /\ sx.mode = "rx"
    /\ NothingHeard
    /\ rxFrame = NoFrame
    /\ connect_state = "LISTEN"
    /\ txFrame.frame_type = "CMD_GET_RX_SETUPDATA"

\* C21: a cycle never cancels a transmission in flight.  The Link FSM leaves
\* TRANSMIT_WAIT only for RECEIVE, an IRQ block handling TX_DONE, or for
\* IDLE, an IRQ block handling TIMEOUT; and no transmission is started on a
\* transceiver that is still transmitting.
C21_InFlightTxNotCancelled ==
    [][/\ (link_state = "TRANSMIT_WAIT" /\ link_state' # "TRANSMIT_WAIT") =>
              \/ link_state' = "RECEIVE" /\ IrqBlockHandles(SX12xx_IRQ_TX_DONE)
              \/ link_state' = "IDLE" /\ IrqBlockHandles(SX12xx_IRQ_TIMEOUT)
       /\ LinkTransmit => (sx.mode # "tx" /\ sx2.mode # "tx")]_vars

\* C22: no cause an ISR can latch, in whatever Link FSM state, stops the
\* loop: the loop never enters one of the endless blink loops of the IRQ
\* blocks.
C22_LoopNeverHalts == pc # "halt"

\* C23: a boot failure is fatal.  When the firmware revision of a transceiver
\* reads 0 or 0xFFFF, the device is in one of the two blink loops from the
\* isOk checks on, for good: no transceiver is started up, none is tuned to
\* a hop frequency, no frame is packed or sent and the loop's state is
\* never set up.
C23_BootFailureIsFatal ==
    (pc # "boot" /\ (sx.rev \in {0, 65535} \/ sx2.rev \in {0, 65535})) =>
        /\ pc = IF sx.rev \in {0, 65535} THEN "blink_red" ELSE "blink_green"
        /\ sx.mode = "stdby" /\ sx2.mode = "stdby"
        /\ \A a \in {ANTENNA_1, ANTENNA_2} : spi[a].cmd \in {"Reset", "GetFirmwareRev"}
        /\ txFrame.frame_type = "none"
        /\ cyc = NoCycle
        /\ transmit_frame_type = "NORMAL"
        /\ ~doSysTask /\ ~doPreTransmit

\* Antenna 2's transceiver answered 0xFFFF, antenna 1's being in order: the
\* device blinks green.
C23_Witness ==
    /\ pc = "blink_green"
    /\ sx.rev = FirmwareRevOk
    /\ sx2.rev = 65535
    /\ spi[ANTENNA_2].cmd = "GetFirmwareRev"

\* C24: LQ and LQ_serial are in 0..100 with LQ_serial <= LQ.  In every frame
\* of the ring fresh_serial_data_received was incremented only if
\* valid_frames_received was, and valid_frames_received only if
\* frames_received was, so that over the ring the fresh serial count is at
\* most the valid count, that at most the received count, and that at most
\* the length of the ring.
C24_LqBounded ==
    /\ GetLQ(txstats) \in 0..100
    /\ GetLQ_serial_data(txstats) \in 0..100
    /\ GetLQ_serial_data(txstats) <= GetLQ(txstats)
    /\ \A i \in 1..LqPeriod :
          /\ "fresh_serial_data_received" \in txstats[i] =>
                 "valid_frames_received" \in txstats[i]
          /\ "valid_frames_received" \in txstats[i] => "frames_received" \in txstats[i]
    /\ LqCount(txstats, "fresh_serial_data_received")
           <= LqCount(txstats, "valid_frames_received")
    /\ LqCount(txstats, "valid_frames_received") <= LqCount(txstats, "frames_received")
    /\ LqCount(txstats, "frames_received") <= LqPeriod

\* The pre-transmit step has counted a valid command frame into a ring that
\* held a frame with fresh serial data and a frame that failed the CRC: LQ
\* is 66 and LQ_serial 33.
C24_Witness ==
    /\ pc = "cmd"
    /\ txstats[LqPeriod] = {"frames_received", "valid_frames_received"}
    /\ rxFrame.kind = "CMD_RX_ACK"
    /\ \E i \in 1..(LqPeriod - 1) : "fresh_serial_data_received" \in txstats[i]
    /\ \E i \in 1..(LqPeriod - 1) : txstats[i] = {"frames_received"}
    /\ GetLQ_serial_data(txstats) < GetLQ(txstats)
    /\ GetLQ(txstats) < 100

\* C25: the channel order round-trips.  After ChannelOrder::Set was called
\* with AETR, then ETAR, then AETR, Apply gives rc.ch[0..4] as they came in;
\* with the order AETR in effect Apply changes nothing, whatever order was
\* set before.
C25_OrderRoundTrip ==
    /\ rc_hist.orders = <<CHANNEL_ORDER_AETR, CHANNEL_ORDER_ETAR, CHANNEL_ORDER_AETR>> =>
           rcData.ch = rc_hist.ch_in
    /\ channelOrder.channel_order = CHANNEL_ORDER_AETR => rcData.ch = rc_hist.ch_in

\* C26: a bridge that has been in STATE_TRANSMITING without a transmit-complete
\* callback for the longest time told apart is put back to STATE_IDLE by
\* CheckAndRescue, and the call makes no transfer to a transceiver.
C26_StuckBridgeRescued ==
    [][(CheckAndRescue /\ pin5.state = "STATE_TRANSMITING" /\ pin5.stuck_ms = StuckMax)
        => (pin5'.state = "STATE_IDLE" /\ spi' = spi)]_vars

\* C27: a pre-transmit step that ends with the connection state not CONNECTED,
\* and so the step that takes CONNECTED to LISTEN, leaves the statistics
\* cleared, with the link state already TRANSMIT for the next transmission.
C27_StatsClearedOffConnected ==
    [][(pc = "pre" /\ doPreTransmit /\ pc' = "cmd" /\ connect_state' # "CONNECTED")
        => (/\ stats' = StatsClear(stats')
            /\ stats'.last_rx_rssi1 = RSSI_INVALID
            /\ stats'.last_rx_rssi2 = RSSI_INVALID
            /\ link_state' = "TRANSMIT")]_vars

\* The step after which the connection has dropped from CONNECTED to LISTEN on
\* the timeout, the statistics cleared and the transmission not yet started.
C27_Witness ==
    /\ pc = "cmd"
    /\ link_state = "TRANSMIT"
    /\ connect_state = "LISTEN"
    /\ connect_tmo_cnt = 0
    /\ conn_hist.from_connected
    /\ stats.last_rx_rssi1 = RSSI_INVALID
    /\ stats.last_rx_rssi2 = RSSI_INVALID

\* C28: an RX_DONE cause handled for one antenna in RECEIVE_WAIT leaves the
\* Link FSM in RECEIVE_WAIT, writes that antenna's receive status (VALID for a
\* frame with a good CRC, INVALID for one with a bad CRC) and leaves the other
\* antenna's status as it was; a status goes back to NONE only in a
\* pre-transmit step or in an IRQ block that handles a timeout.
C28_RxDoneWritesOwnStatus ==
    [][/\ (/\ pc = "irq" /\ pc' # "irq" /\ USE_ANTENNA1
           /\ link_state = "RECEIVE_WAIT" /\ SX12xx_IRQ_RX_DONE \in irq_status)
          => (/\ link_state' = "RECEIVE_WAIT"
              /\ link_rx1_status' = IF rxFrame'.crc_ok THEN RX_STATUS_VALID
                                    ELSE RX_STATUS_INVALID
              /\ link_rx2_status' = link_rx2_status)
       /\ (/\ pc = "irq2" /\ pc' # "irq2" /\ USE_ANTENNA2
           /\ link_state = "RECEIVE_WAIT" /\ SX12xx_IRQ_RX_DONE \in irq2_status)
          => (/\ link_state' = "RECEIVE_WAIT"
              /\ link_rx2_status' = IF rxFrame2'.crc_ok THEN RX_STATUS_VALID
                                    ELSE RX_STATUS_INVALID
              /\ link_rx1_status' = link_rx1_status)
       /\ (\/ link_rx1_status # RX_STATUS_NONE /\ link_rx1_status' = RX_STATUS_NONE
           \/ link_rx2_status # RX_STATUS_NONE /\ link_rx2_status' = RX_STATUS_NONE)
          => (\/ pc = "pre" /\ doPreTransmit
              \/ pc = "irq" /\ USE_ANTENNA1 /\ SX12xx_IRQ_TIMEOUT \in irq_status
              \/ pc = "irq2" /\ USE_ANTENNA2 /\ SX12xx_IRQ_TIMEOUT \in irq2_status)]_vars

\* Both antennas have received in the same RECEIVE_WAIT, antenna 1 a frame with
\* a bad CRC and antenna 2 one with a good CRC, each status written on its own.
C28_Witness ==
    /\ pc = "pre"
    /\ USE_ANTENNA1 /\ USE_ANTENNA2
    /\ link_state = "RECEIVE_WAIT"
    /\ link_rx1_status = RX_STATUS_INVALID
    /\ link_rx2_status = RX_STATUS_VALID
    /\ ~rxFrame.crc_ok /\ rxFrame2.crc_ok

\* C29: a pre-transmit step that has a frame to handle writes a payload to
\* serial and lets a reply act on the command slot only if the receive status
\* of the antenna the arbiter selects is VALID.
C29_OnlyValidFrameProcessed ==
    [][(pc = "pre" /\ doPreTransmit /\ pc' = "cmd" /\ frame_received)
        => LET antenna == SelectAntenna(USE_ANTENNA1, USE_ANTENNA2, link_rx1_status,
                                        link_rx2_status, stats.last_rx_rssi1,
                                        stats.last_rx_rssi2)
               rx_status == IF antenna = ANTENNA_1 THEN link_rx1_status ELSE link_rx2_status
           IN  rx_status # RX_STATUS_VALID
                  => (serial_out' = "none" /\ transmit_frame_type' = transmit_frame_type)]_vars

C31_CountersBounded ==
    /\ [](/\ connect_sync_cnt \in 0..CONNECT_SYNC_CNT
          /\ connect_tmo_cnt \in 0..CONNECT_TMO_SYSTICKS)
    /\ [][/\ connect_sync_cnt' > connect_sync_cnt
             => (connect_state = "SYNC" /\ connect_sync_cnt' = connect_sync_cnt + 1)
          /\ connect_tmo_cnt' < connect_tmo_cnt
             => (connect_tmo_cnt > 0 /\ connect_tmo_cnt' = connect_tmo_cnt - 1)]_vars

\* Right after the pre-transmit step that connects, both counters are at
\* their upper bounds.
C31_Witness ==
    /\ pc = "cmd"
    /\ connect_state = "CONNECTED"
    /\ connect_sync_cnt = CONNECT_SYNC_CNT
    /\ connect_tmo_cnt = CONNECT_TMO_SYSTICKS

\* C32: no Do call makes a PutBuf of a parsed frame into fifo_link_out with
\* less free space than the frame is long, however many complete messages
\* wait on serial.
C32_NoFifoOverflow == ~msp.overflow

C34_RequestInjection ==
    [][/\ msp'.sent # "none"
          => (/\ msp.silent_ms > MspSilenceMs
              /\ msp.inject_gap_ms >= MspTickMs
              /\ msp'.tick # msp.tick)
       /\ msp'.sent = "MSP_ATTITUDE" => msp'.tick \in {0, 5, 10, 15}
       /\ msp'.sent = "MSP_ALTITUDE" => msp'.tick \in {2, 6, 11, 16}
       /\ msp'.sent = "MSP_INAV_STATUS" => msp'.tick \in {3, 7, 12, 17}
       /\ (msp'.tick # msp.tick /\ MspSilent(msp.millis, msp.msp_request_tlast_ms))
          => (/\ msp'.tick \in {0, 5, 10, 15} => msp'.sent = "MSP_ATTITUDE"
              /\ msp'.tick \in {2, 6, 11, 16} => msp'.sent = "MSP_ALTITUDE"
              /\ msp'.tick \in {3, 7, 12, 17} => msp'.sent = "MSP_INAV_STATUS")]_vars

\* The last request of a round has been injected, on tick 17, after a request
\* from the link had been received and the silence had run out again.
C34_Witness ==
    /\ msp.sent = "MSP_INAV_STATUS"
    /\ msp.tick = 17
    /\ msp.msp_request_tlast_ms # 0
    /\ msp.inject_gap_ms = 0

====
